---- MODULE Spec2Model ----
(***************************************************************************)
(* A model of gejmboj_cpu, an interpreter for the Sharp SM83 instruction   *)
(* set: the register file, the flat memory, the opcode decoder, the        *)
(* instruction groups and CPU::tick.                                        *)
(*                                                                         *)
(* Bytes are 0..255 and words 0..65535; every u8/u16 operation is written  *)
(* with the width it has in the source.  Rust's `+`, `-`, `+=`, `-=` on    *)
(* integers abort the program on overflow when the crate is built with     *)
(* overflow checks (the dev profile) and wrap otherwise (the release       *)
(* profile); the variable overflow_checks holds which build is running.    *)
(* Indexing the memory vector beyond 0xFFFF aborts in every build.         *)
(***************************************************************************)
EXTENDS Integers, Sequences, FiniteSets, TLC

VARIABLES
    registers,        \* Registers: A B C D E F H L (u8), PC SP (u16)
    memory,           \* Memory: the addresses holding a non-zero byte
    flags,            \* CpuFlags: IME, IME_scheduled
    last,             \* the operation performed last and what it returned
    before,           \* registers, memory and flags before that operation
    ops,              \* how many operations have been performed
    overflow_checks   \* TRUE: integer overflow aborts; FALSE: it wraps

vars == <<registers, memory, flags, last, before, ops, overflow_checks>>

-----------------------------------------------------------------------------
(* Bounds of the model.                                                    *)

\* number of operations performed on one CPU instance
MaxOps == 3

-----------------------------------------------------------------------------
(* Fixed-width arithmetic.                                                 *)

U8 == 0..255
U16 == 0..65535

BitOf(x, i) == (x \div (2^i)) % 2

\* &, | and ^ on 4-bit values, bit by bit
Nibble == 0..15
AndBit(p, q) == p * q
OrBit(p, q) == IF p + q > 0 THEN 1 ELSE 0
XorBit(p, q) == (p + q) % 2

And4 ==
    [x \in Nibble |-> [y \in Nibble |->
        LET b(i) == AndBit(BitOf(x, i), BitOf(y, i))
        IN b(0) + 2 * b(1) + 4 * b(2) + 8 * b(3)]]

Or4 ==
    [x \in Nibble |-> [y \in Nibble |->
        LET b(i) == OrBit(BitOf(x, i), BitOf(y, i))
        IN b(0) + 2 * b(1) + 4 * b(2) + 8 * b(3)]]

Xor4 ==
    [x \in Nibble |-> [y \in Nibble |->
        LET b(i) == XorBit(BitOf(x, i), BitOf(y, i))
        IN b(0) + 2 * b(1) + 4 * b(2) + 8 * b(3)]]

\* x & y, x | y, x ^ y on u8: the high and the low nibble
And8(x, y) == 16 * And4[x \div 16][y \div 16] + And4[x % 16][y % 16]
Or8(x, y) == 16 * Or4[x \div 16][y \div 16] + Or4[x % 16][y % 16]
Xor8(x, y) == 16 * Xor4[x \div 16][y \div 16] + Xor4[x % 16][y % 16]

\* !x on u8
Not8(x) == 255 - x

\* u8::wrapping_add, u8::wrapping_sub, u16::wrapping_add, u16::wrapping_sub
wrapping_add8(x, y) == (x + y) % 256
wrapping_sub8(x, y) == (x - y + 256) % 256
wrapping_add16(x, y) == (x + y) % 65536
wrapping_sub16(x, y) == (x - y + 65536) % 65536

\* u8::overflowing_add, u8::overflowing_sub, u16::overflowing_add
overflowing_add8(x, y) == [result |-> (x + y) % 256, overflow |-> x + y > 255]
overflowing_sub8(x, y) == [result |-> (x - y + 256) % 256, overflow |-> y > x]
overflowing_add16(x, y) == [result |-> (x + y) % 65536, overflow |-> x + y > 65535]

-----------------------------------------------------------------------------
(* registers.rs                                                            *)

MASK_FLAG_CARRY == 16
MASK_FLAG_HALF_CARRY == 32
MASK_FLAG_NEGATIVE == 64
MASK_FLAG_ZERO == 128

SingleRegister == {"A", "B", "C", "D", "E", "F", "H", "L"}
DoubleRegister == {"AF", "BC", "DE", "HL", "SP"}

\* Registers::new
Registers_new ==
    [A |-> 0, B |-> 0, C |-> 0, D |-> 0, E |-> 0, F |-> 0, H |-> 0, L |-> 0,
     PC |-> 0, SP |-> 65534]

\* a faulty set_single: F is stored whole
set_single_unmasked(regs, r, value) == [regs EXCEPT ![r] = value]

\* Registers::set_single: F keeps only its high nibble
set_single(regs, r, value) ==
    IF r = "F" THEN [regs EXCEPT !.F = And8(value, 240)]
    ELSE [regs EXCEPT ![r] = value]

get_single(regs, r) == regs[r]

\* Registers::get_double: u16::from_be_bytes([hi, lo])
get_double(regs, r) ==
    CASE r = "AF" -> regs.A * 256 + regs.F
      [] r = "BC" -> regs.B * 256 + regs.C
      [] r = "DE" -> regs.D * 256 + regs.E
      [] r = "HL" -> regs.H * 256 + regs.L
      [] r = "SP" -> regs.SP

\* Registers::set_double: AF keeps only the high nibble of its low byte
set_double(regs, r, value) ==
    LET hi == value \div 256
        lo == value % 256
    IN CASE r = "AF" -> [regs EXCEPT !.A = hi, !.F = And8(lo, 240)]
         [] r = "BC" -> [regs EXCEPT !.B = hi, !.C = lo]
         [] r = "DE" -> [regs EXCEPT !.D = hi, !.E = lo]
         [] r = "HL" -> [regs EXCEPT !.H = hi, !.L = lo]
         [] r = "SP" -> [regs EXCEPT !.SP = hi * 256 + lo]

is_carry(regs) == And8(regs.F, MASK_FLAG_CARRY) > 0
is_half_carry(regs) == And8(regs.F, MASK_FLAG_HALF_CARRY) > 0
is_negative(regs) == And8(regs.F, MASK_FLAG_NEGATIVE) > 0
is_zero(regs) == And8(regs.F, MASK_FLAG_ZERO) > 0

\* Registers::get_flags and Registers::set_flags are called by the
\* instruction groups; they read and write register F.
get_flags(regs) == get_single(regs, "F")
set_flags(regs, value) == set_single(regs, "F", value)

\* Registers::set_zero, set_negative, set_half_carry (called by Bit::Bit)
set_flag_bit(regs, mask, on) ==
    IF on THEN set_flags(regs, Or8(get_flags(regs), mask))
    ELSE set_flags(regs, And8(get_flags(regs), Not8(mask)))

set_zero(regs, on) == set_flag_bit(regs, MASK_FLAG_ZERO, on)
set_negative(regs, on) == set_flag_bit(regs, MASK_FLAG_NEGATIVE, on)
set_half_carry(regs, on) == set_flag_bit(regs, MASK_FLAG_HALF_CARRY, on)

\* impl From<(u8, u8, u8)> for SingleRegister
SingleRegister_from(a, b, c) ==
    CASE a = 0 /\ b = 0 /\ c = 0 -> "B"
      [] a = 0 /\ b = 0 /\ c > 0 -> "C"
      [] a = 0 /\ b > 0 /\ c = 0 -> "D"
      [] a = 0 /\ b > 0 /\ c > 0 -> "E"
      [] a > 0 /\ b = 0 /\ c = 0 -> "H"
      [] a > 0 /\ b = 0 /\ c > 0 -> "L"
      [] a > 0 /\ b > 0 /\ c = 0 -> "F"
      [] a > 0 /\ b > 0 /\ c > 0 -> "A"

\* impl From<(u8, u8, u8)> for DoubleRegister
DoubleRegister_from(a, b, c) ==
    CASE b = 0 /\ c = 0 -> "BC"
      [] b = 0 /\ c > 0 -> "DE"
      [] b > 0 /\ c = 0 -> "HL"
      [] a = 0 /\ b > 0 /\ c > 0 -> "SP"
      [] a > 0 /\ b > 0 /\ c > 0 -> "AF"

-----------------------------------------------------------------------------
(* memory.rs: a vector of 0xFFFF + 1 bytes, all 0 at construction.  The    *)
(* model keeps the cells that hold a non-zero byte.                        *)

Memory_new == [a \in {} |-> 0]

\* an index the vector has; any other index aborts the program
InBounds(location) == location >= 0 /\ location <= 65535

\* Memory::get
get(mem, location) == IF location \in DOMAIN mem THEN mem[location] ELSE 0

\* Memory::set
set(mem, location, value) ==
    LET dom == IF value = 0 THEN DOMAIN mem \ {location}
               ELSE DOMAIN mem \cup {location}
    IN [a \in dom |-> IF a = location THEN value ELSE mem[a]]

\* Memory::get_u16: u16::from_le_bytes([get(location), get(location + 1)])
get_u16(mem, location) == get(mem, location) + 256 * get(mem, location + 1)

\* Memory::set_u16: lo at location, hi at location + 1
set_u16(mem, location, value) ==
    set(set(mem, location, value % 256), location + 1, value \div 256)

-----------------------------------------------------------------------------
(* cpu.rs: CpuFlags                                                        *)

CpuFlags_new == [IME |-> FALSE, IME_scheduled |-> FALSE]


-----------------------------------------------------------------------------
(* instructions.rs: Instruction, Condition, decode                         *)

\* A value of the Instruction enum: its group, its variant and the variant's
\* fields (registers r and r2, an 8- or 16-bit operand, a condition).
Instr(group, name) ==
    [r |-> "-", group |-> group, name |-> name, r2 |-> "-", operand |-> 0,
     condition |-> "-"]

InstrR(group, name, r) == [Instr(group, name) EXCEPT !.r = r]
InstrN(group, name, n) == [Instr(group, name) EXCEPT !.operand = n]

\* utils::into_bits: the eight bits of x, most significant first
into_bits(x) ==
    <<BitOf(x, 7), BitOf(x, 6), BitOf(x, 5), BitOf(x, 4),
      BitOf(x, 3), BitOf(x, 2), BitOf(x, 1), BitOf(x, 0)>>

\* a match arm's pattern: 0 or 1 for a literal bit, -1 for a binding or _
Matches(bits, pattern) ==
    \A i \in 1..8 : pattern[i] = -1 \/ pattern[i] = bits[i]

\* a different table: the order NotZero, Zero, NoCarry, Carry
Condition_parse_other_order(c1, c2) ==
    CASE c1 = 0 /\ c2 = 0 -> "NotZero"
      [] c1 = 0 /\ c2 = 1 -> "Zero"
      [] c1 = 1 /\ c2 = 0 -> "NoCarry"
      [] c1 = 1 /\ c2 = 1 -> "Carry"

\* Condition::parse
Condition_parse(c1, c2) ==
    CASE c1 = 0 /\ c2 = 0 -> "Carry"
      [] c1 = 0 /\ c2 = 1 -> "NoCarry"
      [] c1 = 1 /\ c2 = 0 -> "Zero"
      [] c1 = 1 /\ c2 = 1 -> "NotZero"

\* Condition::is_fulfilled
is_fulfilled(condition, regs) ==
    CASE condition = "Carry" -> is_carry(regs)
      [] condition = "NoCarry" -> ~is_carry(regs)
      [] condition = "Zero" -> is_zero(regs)
      [] condition = "NotZero" -> ~is_zero(regs)

\* what decode returns: Ok(instruction), Err(UnknownInstruction(opcode)), or
\* the program aborts ("panic") on an index beyond the memory vector
DecodeOk(instruction) ==
    [result |-> "Ok", instruction |-> instruction, opcode |-> 0]

DecodeUnknown(opcode) ==
    [result |-> "UnknownInstruction", instruction |-> Instr("-", "-"),
     opcode |-> opcode]

DecodePanic ==
    [result |-> "panic", instruction |-> Instr("-", "-"), opcode |-> 0]

\* an instruction whose operand is get_8bit_operand(pc, memory):
\* memory.get((pc as usize) + 1)
With8bitOperand(pc, mem, instruction) ==
    IF InBounds(pc + 1)
    THEN DecodeOk([instruction EXCEPT !.operand = get(mem, pc + 1)])
    ELSE DecodePanic

\* a faulty get_16bit_operand: the byte at pc + 1 is taken as the high byte
With16bitOperand_high_byte_first(pc, mem, instruction) ==
    IF InBounds(pc + 1) /\ InBounds(pc + 2)
    THEN DecodeOk([instruction EXCEPT
                     !.operand = 256 * get(mem, pc + 1) + get(mem, pc + 2)])
    ELSE DecodePanic

\* an instruction whose operand is get_16bit_operand(pc, memory):
\* memory.get_u16((pc as usize) + 1), which reads pc + 1 and then pc + 2
With16bitOperand(pc, mem, instruction) ==
    IF InBounds(pc + 1) /\ InBounds(pc + 2)
    THEN DecodeOk([instruction EXCEPT !.operand = get_u16(mem, pc + 1)])
    ELSE DecodePanic

\* rotate_shift::decode
rotate_shift_decode(operand) ==
    LET b == into_bits(operand)
        M(p) == Matches(b, p)
        RS(name) == DecodeOk(InstrN("RotateShift", name, operand))
    IN CASE M(<<0, 0, 0, 0, 0, -1, -1, -1>>) -> RS("RLC")
         [] M(<<0, 0, 0, 0, 1, -1, -1, -1>>) -> RS("RRC")
         [] M(<<0, 0, 0, 1, 0, -1, -1, -1>>) -> RS("RL")
         [] M(<<0, 0, 0, 1, 1, -1, -1, -1>>) -> RS("RR")
         [] M(<<0, 0, 1, 0, 0, -1, -1, -1>>) -> RS("SLA")
         [] M(<<0, 0, 1, 0, 1, -1, -1, -1>>) -> RS("SRA")
         [] M(<<0, 0, 1, 1, 0, -1, -1, -1>>) -> RS("SWAP")
         [] M(<<0, 0, 1, 1, 1, -1, -1, -1>>) -> RS("SRL")
         [] OTHER -> DecodeUnknown(operand)

\* a faulty table: the arm of top bits 11 is missing
bit_decode_without_set(operand) ==
    LET b == into_bits(operand)
        M(p) == Matches(b, p)
    IN CASE M(<<0, 1, -1, -1, -1, -1, -1, -1>>) -> DecodeOk(InstrN("Bit", "BIT", operand))
         [] M(<<1, 0, -1, -1, -1, -1, -1, -1>>) -> DecodeOk(InstrN("Bit", "RES", operand))
         [] OTHER -> DecodeUnknown(operand)

\* bit::decode
bit_decode(operand) ==
    LET b == into_bits(operand)
        M(p) == Matches(b, p)
    IN CASE M(<<0, 1, -1, -1, -1, -1, -1, -1>>) -> DecodeOk(InstrN("Bit", "BIT", operand))
         [] M(<<1, 1, -1, -1, -1, -1, -1, -1>>) -> DecodeOk(InstrN("Bit", "SET", operand))
         [] M(<<1, 0, -1, -1, -1, -1, -1, -1>>) -> DecodeOk(InstrN("Bit", "RES", operand))
         [] OTHER -> DecodeUnknown(operand)

\* the 0b1100_1011 arm of decode: rotate_shift::decode(operand), or else
\* bit::decode(operand)
decode_prefixed(pc, mem) ==
    IF ~InBounds(pc + 1) THEN DecodePanic
    ELSE LET operand == get(mem, pc + 1)
             rs == rotate_shift_decode(operand)
         IN IF rs.result = "Ok" THEN rs ELSE bit_decode(operand)

\* decode, the arms with every bit fixed ("ABSOLUTE MATCHES"), in order;
\* Instr("-", "-") when none matches
decode_absolute(opcode, pc, mem) ==
    LET b == into_bits(opcode)
        M(p) == Matches(b, p)
        I0(g, n) == DecodeOk(Instr(g, n))
        I8(g, n) == With8bitOperand(pc, mem, Instr(g, n))
        I16(g, n) == With16bitOperand(pc, mem, Instr(g, n))
    IN CASE M(<<0, 0, 0, 0, 0, 0, 0, 0>>) -> I0("Misc", "NOP")
         [] M(<<1, 1, 1, 1, 0, 0, 1, 1>>) -> I0("Misc", "DI")
         [] M(<<1, 1, 1, 1, 1, 0, 1, 1>>) -> I0("Misc", "EI")
         [] M(<<0, 0, 1, 1, 1, 1, 1, 1>>) -> I0("Misc", "CCF")
         [] M(<<0, 0, 1, 1, 0, 1, 1, 1>>) -> I0("Misc", "SCF")
         [] M(<<0, 0, 1, 0, 0, 1, 1, 1>>) -> I0("Misc", "DAA")
         [] M(<<0, 0, 1, 0, 1, 1, 1, 1>>) -> I0("Misc", "CPL")
         [] M(<<1, 1, 0, 0, 0, 0, 1, 1>>) -> I16("ControlFlow", "JP")
         [] M(<<1, 1, 0, 0, 1, 0, 0, 1>>) -> I0("ControlFlow", "RET")
         [] M(<<1, 1, 0, 1, 1, 0, 0, 1>>) -> I0("ControlFlow", "RETI")
         [] M(<<1, 1, 0, 0, 1, 1, 0, 1>>) -> I16("ControlFlow", "CALL")
         [] M(<<1, 1, 1, 0, 1, 0, 0, 1>>) -> I0("ControlFlow", "JP_HL")
         [] M(<<0, 0, 0, 1, 1, 0, 0, 0>>) -> I8("ControlFlow", "JR")
         [] M(<<0, 0, 0, 0, 1, 0, 1, 0>>) -> I0("Load8Bit", "LD_BC_TO_A")
         [] M(<<0, 0, 0, 1, 1, 0, 1, 0>>) -> I0("Load8Bit", "LD_DE_TO_A")
         [] M(<<0, 0, 0, 0, 0, 0, 1, 0>>) -> I0("Load8Bit", "LD_A_TO_BC")
         [] M(<<0, 0, 0, 1, 0, 0, 1, 0>>) -> I0("Load8Bit", "LD_A_TO_DE")
         [] M(<<1, 1, 1, 1, 1, 0, 1, 0>>) -> I16("Load8Bit", "LD_TO_A")
         [] M(<<1, 1, 1, 1, 0, 0, 1, 0>>) -> I0("Load8Bit", "LDH_C_TO_A")
         [] M(<<1, 1, 1, 0, 0, 0, 1, 0>>) -> I0("Load8Bit", "LDH_C_FROM_A")
         [] M(<<1, 1, 1, 1, 0, 0, 0, 0>>) -> I8("Load8Bit", "LDH_TO_A")
         [] M(<<1, 1, 1, 0, 0, 0, 0, 0>>) -> I8("Load8Bit", "LDH_FROM_A")
         [] M(<<1, 1, 1, 0, 1, 0, 1, 0>>) -> I16("Load8Bit", "LD_FROM_A")
         [] M(<<0, 0, 1, 1, 1, 0, 1, 0>>) -> I0("Load8Bit", "LD_A_FROM_HL_DEC")
         [] M(<<0, 0, 1, 1, 0, 0, 1, 0>>) -> I0("Load8Bit", "LD_A_TO_HL_DEC")
         [] M(<<0, 0, 1, 0, 1, 0, 1, 0>>) -> I0("Load8Bit", "LD_A_FROM_HL_INC")
         [] M(<<0, 0, 1, 0, 0, 0, 1, 0>>) -> I0("Load8Bit", "LD_A_TO_HL_INC")
         [] M(<<0, 0, 0, 0, 1, 0, 0, 0>>) -> I16("Load16Bit", "LD_FROM_SP")
         [] M(<<1, 1, 1, 1, 1, 0, 0, 1>>) -> I0("Load16Bit", "LD_HL_TO_SP")
         [] M(<<1, 0, 0, 0, 0, 1, 1, 0>>) -> I0("ALU8Bit", "ADD_HL")
         [] M(<<1, 1, 0, 0, 0, 1, 1, 0>>) -> I8("ALU8Bit", "ADD_N")
         [] M(<<1, 0, 0, 0, 1, 1, 1, 0>>) -> I0("ALU8Bit", "ADC_HL")
         [] M(<<1, 1, 0, 0, 1, 1, 1, 0>>) -> I8("ALU8Bit", "ADC_N")
         [] M(<<1, 0, 0, 1, 0, 1, 1, 0>>) -> I0("ALU8Bit", "SUB_HL")
         [] M(<<1, 1, 0, 1, 0, 1, 1, 0>>) -> I8("ALU8Bit", "SUB_N")
         [] M(<<1, 0, 0, 1, 1, 1, 1, 0>>) -> I0("ALU8Bit", "SBC_HL")
         [] M(<<1, 1, 0, 1, 1, 1, 1, 0>>) -> I8("ALU8Bit", "SBC_N")
         [] M(<<1, 0, 1, 0, 0, 1, 1, 0>>) -> I0("ALU8Bit", "AND_HL")
         [] M(<<1, 1, 1, 0, 0, 1, 1, 0>>) -> I8("ALU8Bit", "AND_N")
         [] M(<<1, 0, 1, 1, 0, 1, 1, 0>>) -> I0("ALU8Bit", "OR_HL")
         [] M(<<1, 1, 1, 1, 0, 1, 1, 0>>) -> I8("ALU8Bit", "OR_N")
         [] M(<<1, 0, 1, 0, 1, 1, 1, 0>>) -> I0("ALU8Bit", "XOR_HL")
         [] M(<<1, 1, 1, 0, 1, 1, 1, 0>>) -> I8("ALU8Bit", "XOR_N")
         [] M(<<1, 0, 1, 1, 1, 1, 1, 0>>) -> I0("ALU8Bit", "CP_HL")
         [] M(<<1, 1, 1, 1, 1, 1, 1, 0>>) -> I8("ALU8Bit", "CP_N")
         [] M(<<0, 0, 1, 1, 0, 1, 0, 0>>) -> I0("ALU8Bit", "INC_HL")
         [] M(<<0, 0, 1, 1, 0, 1, 0, 1>>) -> I0("ALU8Bit", "DEC_HL")
         [] M(<<1, 1, 1, 0, 1, 0, 0, 0>>) -> I8("ALU16Bit", "ADD_SP")
         [] M(<<0, 0, 0, 0, 0, 1, 1, 1>>) -> I0("RotateShift", "RLCA")
         [] M(<<0, 0, 0, 0, 1, 1, 1, 1>>) -> I0("RotateShift", "RRCA")
         [] M(<<0, 0, 0, 1, 0, 1, 1, 1>>) -> I0("RotateShift", "RLA")
         [] M(<<0, 0, 0, 1, 1, 1, 1, 1>>) -> I0("RotateShift", "RRA")
         [] M(<<1, 1, 0, 0, 1, 0, 1, 1>>) -> decode_prefixed(pc, mem)
         [] OTHER -> DecodeOk(Instr("-", "-"))

\* decode, the arms that bind bits ("VARIABLE MATCHES") and the catch-all,
\* in order.  The arms are tried top to bottom, so each is guarded by the
\* failure of those before it.
decode_variable(opcode, pc, mem) ==
    LET b == into_bits(opcode)
        M(p) == Matches(b, p)
        SR(i, j, k) == SingleRegister_from(b[i], b[j], b[k])
        Cond == Condition_parse(b[4], b[5])
        C8(n) == With8bitOperand(pc, mem, [Instr("ControlFlow", n) EXCEPT !.condition = Cond])
        C16(n) == With16bitOperand(pc, mem, [Instr("ControlFlow", n) EXCEPT !.condition = Cond])
        A8(n) == DecodeOk(InstrR("ALU8Bit", n, SR(6, 7, 8)))
        A16(n) == DecodeOk(InstrR("ALU16Bit", n, DoubleRegister_from(0, b[3], b[4])))
    IN IF M(<<1, 1, 0, -1, -1, 0, 1, 0>>) THEN C16("JPC")
       ELSE IF M(<<0, 0, 1, -1, -1, 0, 0, 0>>) THEN C8("JRC")
       ELSE IF M(<<1, 1, 0, -1, -1, 1, 0, 0>>) THEN C16("CALLC")
       ELSE IF M(<<1, 1, 0, -1, -1, 0, 0, 0>>)
           THEN DecodeOk([Instr("ControlFlow", "RETC") EXCEPT !.condition = Cond])
       ELSE IF M(<<1, 1, -1, -1, -1, 1, 1, 1>>)
           THEN DecodeOk(InstrN("ControlFlow", "RST", opcode))
       ELSE IF M(<<0, 1, -1, -1, -1, 1, 1, 0>>)
           THEN DecodeOk(InstrR("Load8Bit", "LD_FROM_HL", SR(3, 4, 5)))
       ELSE IF M(<<0, 1, 1, 1, 0, -1, -1, -1>>)
           THEN DecodeOk(InstrR("Load8Bit", "LD_TO_HL", SR(6, 7, 8)))
       ELSE IF M(<<0, 1, -1, -1, -1, -1, -1, -1>>)
           THEN DecodeOk([Instr("Load8Bit", "LD") EXCEPT !.r = SR(3, 4, 5), !.r2 = SR(6, 7, 8)])
       ELSE IF M(<<0, 0, -1, -1, 0, 0, 0, 1>>)
           THEN With16bitOperand(pc, mem,
                    InstrR("Load16Bit", "LD", DoubleRegister_from(0, b[3], b[4])))
       ELSE IF M(<<1, 1, -1, -1, 0, 1, 0, 1>>)
           THEN DecodeOk(InstrR("Load16Bit", "PUSH", DoubleRegister_from(1, b[3], b[4])))
       ELSE IF M(<<1, 1, -1, -1, 0, 0, 0, 1>>)
           THEN DecodeOk(InstrR("Load16Bit", "POP", DoubleRegister_from(1, b[3], b[4])))
       ELSE IF M(<<1, 0, 0, 0, 0, -1, -1, -1>>) THEN A8("ADD")
       ELSE IF M(<<1, 0, 0, 0, 1, -1, -1, -1>>) THEN A8("ADC")
       ELSE IF M(<<1, 0, 0, 1, 0, -1, -1, -1>>) THEN A8("SUB")
       ELSE IF M(<<1, 0, 0, 1, 1, -1, -1, -1>>) THEN A8("SBC")
       ELSE IF M(<<1, 0, 1, 0, 0, -1, -1, -1>>) THEN A8("AND")
       ELSE IF M(<<1, 0, 1, 1, 0, -1, -1, -1>>) THEN A8("OR")
       ELSE IF M(<<1, 0, 1, 0, 1, -1, -1, -1>>) THEN A8("XOR")
       ELSE IF M(<<1, 0, 1, 1, 1, -1, -1, -1>>) THEN A8("CP")
       ELSE IF M(<<0, 0, -1, -1, -1, 1, 0, 0>>)
           THEN DecodeOk(InstrR("ALU8Bit", "INC", SR(3, 4, 5)))
       ELSE IF M(<<0, 0, -1, -1, -1, 1, 0, 1>>)
           THEN DecodeOk(InstrR("ALU8Bit", "DEC", SR(3, 4, 5)))
       ELSE IF M(<<0, 0, -1, -1, 1, 0, 0, 1>>) THEN A16("ADD_HL")
       ELSE IF M(<<0, 0, -1, -1, 0, 0, 1, 1>>) THEN A16("INC")
       ELSE IF M(<<0, 0, -1, -1, 1, 0, 1, 1>>) THEN A16("DEC")
       ELSE DecodeUnknown(opcode)

\* a faulty decode: the arms with register fields are tried before the
\* arms of a single opcode
decode_variable_arms_first(opcode, pc, mem) ==
    LET variable == decode_variable(opcode, pc, mem)
        absolute == decode_absolute(opcode, pc, mem)
    IN IF variable # DecodeUnknown(opcode) THEN variable
       ELSE IF absolute = DecodeOk(Instr("-", "-")) THEN DecodeUnknown(opcode)
       ELSE absolute

\* decode(opcode, pc, memory)
decode(opcode, pc, mem) ==
    LET absolute == decode_absolute(opcode, pc, mem)
    IN IF absolute = DecodeOk(Instr("-", "-"))
       THEN decode_variable(opcode, pc, mem)
       ELSE absolute

-----------------------------------------------------------------------------
(* What Instruction::execute returns and leaves behind: Ok(cycles), an     *)
(* Err(CpuError), or the program aborts ("panic").                         *)

ExecOk(regs, mem, fl, cycles) ==
    [result |-> "Ok", cycles |-> cycles, registers |-> regs, memory |-> mem,
     flags |-> fl]

ExecErr(error, regs, mem, fl) ==
    [result |-> error, cycles |-> 0, registers |-> regs, memory |-> mem,
     flags |-> fl]

ExecPanic(regs, mem, fl) ==
    [result |-> "panic", cycles |-> 0, registers |-> regs, memory |-> mem,
     flags |-> fl]

\* x + y and x - y on u16 as the build evaluates them: "abort" when the
\* result does not fit and overflow checks are on, the wrapped result otherwise
add16_aborts(x, y) == overflow_checks /\ x + y > 65535
sub16_aborts(x, y) == overflow_checks /\ y > x

-----------------------------------------------------------------------------
(* instructions/alu_8bit.rs                                                *)

\* a faulty Sub arm: HalfCarry also when the result is zero
calculate_sub_half_carry_of_zero(a, operand) ==
    LET sub == overflowing_sub8(a, operand)
        result == sub.result
        z == IF result = 0 THEN MASK_FLAG_ZERO ELSE 0
        h == IF And8(result, 16) # And8(a, 16)
             THEN MASK_FLAG_HALF_CARRY ELSE 0
        c == IF sub.overflow THEN MASK_FLAG_CARRY ELSE 0
    IN [result |-> result, flags |-> Or8(Or8(Or8(MASK_FLAG_NEGATIVE, z), h), c)]

\* a faulty Sub arm: Carry also when the operand equals a
calculate_sub_carry_on_equal(a, operand) ==
    LET sub == overflowing_sub8(a, operand)
        result == sub.result
        z == IF result = 0 THEN MASK_FLAG_ZERO ELSE 0
        h == IF result # 0 /\ And8(result, 16) # And8(a, 16)
             THEN MASK_FLAG_HALF_CARRY ELSE 0
        c == IF sub.overflow \/ operand = a THEN MASK_FLAG_CARRY ELSE 0
    IN [result |-> result, flags |-> Or8(Or8(Or8(MASK_FLAG_NEGATIVE, z), h), c)]

\* AluOp::calculate, arms AluOp::Sub | AluOp::Cp
calculate_sub(a, operand) ==
    LET sub == overflowing_sub8(a, operand)
        result == sub.result
        z == IF result = 0 THEN MASK_FLAG_ZERO ELSE 0
        h == IF result # 0 /\ And8(result, 16) # And8(a, 16)
             THEN MASK_FLAG_HALF_CARRY ELSE 0
        c == IF sub.overflow THEN MASK_FLAG_CARRY ELSE 0
    IN [result |-> result, flags |-> Or8(Or8(Or8(MASK_FLAG_NEGATIVE, z), h), c)]

\* a faulty Add arm: HalfCarry is bit 4 of the result
calculate_add_half_carry_of_result(a, operand) ==
    LET add == overflowing_add8(a, operand)
        result == add.result
        z == IF result = 0 THEN MASK_FLAG_ZERO ELSE 0
        h == IF And8(result, 16) > 0 THEN MASK_FLAG_HALF_CARRY ELSE 0
        c == IF add.overflow THEN MASK_FLAG_CARRY ELSE 0
    IN [result |-> result, flags |-> Or8(Or8(z, h), c)]

\* AluOp::calculate, arm AluOp::Add
calculate_add(a, operand) ==
    LET add == overflowing_add8(a, operand)
        result == add.result
        z == IF result = 0 THEN MASK_FLAG_ZERO ELSE 0
        h == IF And8(Xor8(Xor8(a, operand), result), 16) > 0
             THEN MASK_FLAG_HALF_CARRY ELSE 0
        c == IF add.overflow THEN MASK_FLAG_CARRY ELSE 0
    IN [result |-> result, flags |-> Or8(Or8(z, h), c)]

\* AluOp::calculate: the result and the flags of op on a and operand
calculate(op, a, operand) ==
    CASE op \in {"Sub", "Cp"} -> calculate_sub(a, operand)
      [] op = "Add" -> calculate_add(a, operand)
      [] op = "And" ->
            LET result == And8(a, operand)
            IN [result |-> result,
                flags |-> IF result = 0 THEN Or8(32, MASK_FLAG_ZERO) ELSE 32]
      [] op = "Or" ->
            LET result == Or8(a, operand)
            IN [result |-> result,
                flags |-> IF result = 0 THEN MASK_FLAG_ZERO ELSE 0]
      [] op = "Xor" ->
            LET result == Xor8(a, operand)
            IN [result |-> result,
                flags |-> IF result = 0 THEN MASK_FLAG_ZERO ELSE 0]

\* perform_calculation: A and the flags after op on A and operand
perform_calculation(op, regs, operand, add_carry) ==
    LET a == get_single(regs, "A")
        operand2 == IF add_carry /\ is_carry(regs)
                    THEN wrapping_add8(operand, 1) ELSE operand
        res == calculate(op, a, operand2)
    IN set_flags(set_single(regs, "A", res.result), res.flags)

\* the AluOp and the add_carry argument of each ALU8Bit variant with A as
\* one operand
AluOpOf(name) ==
    CASE name \in {"ADD", "ADD_N", "ADD_HL"} -> [op |-> "Add", add_carry |-> FALSE]
      [] name \in {"ADC", "ADC_N", "ADC_HL"} -> [op |-> "Add", add_carry |-> TRUE]
      [] name \in {"SUB", "SUB_N", "SUB_HL"} -> [op |-> "Sub", add_carry |-> FALSE]
      [] name \in {"SBC", "SBC_N", "SBC_HL"} -> [op |-> "Sub", add_carry |-> TRUE]
      [] name \in {"AND", "AND_N", "AND_HL"} -> [op |-> "And", add_carry |-> FALSE]
      [] name \in {"OR", "OR_N", "OR_HL"} -> [op |-> "Or", add_carry |-> FALSE]
      [] name \in {"XOR", "XOR_N", "XOR_HL"} -> [op |-> "Xor", add_carry |-> FALSE]
      [] name \in {"CP", "CP_N", "CP_HL"} -> [op |-> "Cp", add_carry |-> FALSE]

\* faulty flags of INC and DEC: Carry as the addition or subtraction left it
KeepCarry_dropped(regs, f) == f

\* the flags INC and DEC store: Carry as it was before the instruction
KeepCarry(regs, f) ==
    IF is_carry(regs) THEN Or8(f, MASK_FLAG_CARRY) ELSE And8(f, 224)

\* ALU8Bit variants taking a SingleRegister:
\* ADD ADC SUB SBC AND OR XOR CP INC DEC
ALU8Bit_on_register(i, regs, mem, fl) ==
    LET operand == get_single(regs, i.r)
    IN CASE i.name = "CP" ->
               LET res == calculate("Cp", get_single(regs, "A"), operand)
               IN ExecOk(set_flags(regs, res.flags), mem, fl, 1)
         [] i.name = "INC" ->
               LET res == calculate("Add", operand, 1)
               IN ExecOk(set_flags(set_single(regs, i.r, res.result),
                                   KeepCarry(regs, res.flags)), mem, fl, 1)
         [] i.name = "DEC" ->
               LET res == calculate("Sub", operand, 1)
               IN ExecOk(set_flags(set_single(regs, i.r, res.result),
                                   KeepCarry(regs, res.flags)), mem, fl, 1)
         [] OTHER ->
               LET k == AluOpOf(i.name)
               IN ExecOk(perform_calculation(k.op, regs, operand, k.add_carry),
                         mem, fl, 1)

\* a faulty register variant: the test for F is missing
ALU8Bit_register_unchecked(i, regs, mem, fl) ==
    ALU8Bit_on_register(i, regs, mem, fl)

\* every register variant starts with
\* if *r == SingleRegister::F { return Err(UnsupportedSingleRegister(*r)) }
ALU8Bit_register(i, regs, mem, fl) ==
    IF i.r = "F" THEN ExecErr("UnsupportedSingleRegister", regs, mem, fl)
    ELSE ALU8Bit_on_register(i, regs, mem, fl)

\* faulty immediate variants: CP_N stores the difference in A as SUB_N does
ALU8Bit_immediate_cp_stores(i, regs, mem, fl) ==
    LET k == AluOpOf(i.name)
    IN ExecOk(perform_calculation(k.op, regs, i.operand, k.add_carry),
              mem, fl, 2)

\* ALU8Bit variants taking an immediate byte:
\* ADD_N ADC_N SUB_N SBC_N AND_N OR_N XOR_N CP_N
ALU8Bit_immediate(i, regs, mem, fl) ==
    IF i.name = "CP_N"
    THEN LET res == calculate("Cp", get_single(regs, "A"), i.operand)
         IN ExecOk(set_flags(regs, res.flags), mem, fl, 2)
    ELSE LET k == AluOpOf(i.name)
         IN ExecOk(perform_calculation(k.op, regs, i.operand, k.add_carry),
                   mem, fl, 2)

\* ALU8Bit variants on the byte at (HL):
\* ADD_HL ADC_HL SUB_HL SBC_HL AND_HL OR_HL XOR_HL CP_HL INC_HL DEC_HL
ALU8Bit_at_hl(i, regs, mem, fl) ==
    LET hl == get_double(regs, "HL")
        operand == get(mem, hl)
    IN CASE i.name = "CP_HL" ->
              LET res == calculate("Cp", get_single(regs, "A"), operand)
              IN ExecOk(set_flags(regs, res.flags), mem, fl, 2)
         [] i.name = "INC_HL" ->
              LET res == calculate("Add", operand, 1)
              IN ExecOk(set_flags(regs, KeepCarry(regs, res.flags)),
                        set(mem, hl, res.result), fl, 3)
         [] i.name = "DEC_HL" ->
              LET res == calculate("Sub", operand, 1)
              IN ExecOk(set_flags(regs, KeepCarry(regs, res.flags)),
                        set(mem, hl, res.result), fl, 3)
         [] OTHER ->
              LET k == AluOpOf(i.name)
              IN ExecOk(perform_calculation(k.op, regs, operand, k.add_carry),
                        mem, fl, 2)

\* ALU8Bit::execute
ALU8Bit_execute(i, regs, mem, fl) ==
    CASE i.name \in {"ADD", "ADC", "SUB", "SBC", "AND", "OR", "XOR", "CP",
                     "INC", "DEC"} -> ALU8Bit_register(i, regs, mem, fl)
      [] i.name \in {"ADD_N", "ADC_N", "SUB_N", "SBC_N", "AND_N", "OR_N",
                     "XOR_N", "CP_N"} -> ALU8Bit_immediate(i, regs, mem, fl)
      [] OTHER -> ALU8Bit_at_hl(i, regs, mem, fl)

\* ALU8Bit::length
ALU8Bit_length(i) ==
    IF i.name \in {"ADD_N", "ADC_N", "SUB_N", "SBC_N", "AND_N", "OR_N",
                   "XOR_N", "CP_N"} THEN 2 ELSE 1

-----------------------------------------------------------------------------
(* instructions/control_flow.rs                                            *)

\* a faulty Call::execute: the high byte of PC goes to SP-2, the low byte
\* to SP-1
Call_high_byte_first(i, regs, mem, fl) ==
    LET lo == regs.PC % 256
        hi == regs.PC \div 256
    IN IF sub16_aborts(regs.SP, 1) \/ sub16_aborts(regs.SP, 2)
       THEN ExecPanic(regs, mem, fl)
       ELSE LET mem1 == set(mem, wrapping_sub16(regs.SP, 1), lo)
                mem2 == set(mem1, wrapping_sub16(regs.SP, 2), hi)
            IN ExecOk([regs EXCEPT !.SP = wrapping_sub16(regs.SP, 2),
                                   !.PC = i.operand], mem2, fl, 6)

\* Call::execute and the taken branch of CallIf::execute
Call(i, regs, mem, fl) ==
    LET lo == regs.PC % 256
        hi == regs.PC \div 256
    IN IF sub16_aborts(regs.SP, 1) \/ sub16_aborts(regs.SP, 2)
       THEN ExecPanic(regs, mem, fl)
       ELSE LET mem1 == set(mem, wrapping_sub16(regs.SP, 1), hi)
                mem2 == set(mem1, wrapping_sub16(regs.SP, 2), lo)
            IN ExecOk([regs EXCEPT !.SP = wrapping_sub16(regs.SP, 2),
                                   !.PC = i.operand], mem2, fl, 6)

\* Ret::execute, the taken branch of RetIf::execute and the return of
\* RetI::execute
Ret(regs, mem, fl, cycles) ==
    IF ~InBounds(regs.SP + 1) \/ add16_aborts(regs.SP, 2)
    THEN ExecPanic(regs, mem, fl)
    ELSE ExecOk([regs EXCEPT !.PC = get_u16(mem, regs.SP),
                             !.SP = wrapping_add16(regs.SP, 2)], mem, fl, cycles)

\* a faulty RETI: the enabling is scheduled for the next step
RetI_scheduling(regs, mem, fl) ==
    Ret(regs, mem, [fl EXCEPT !.IME_scheduled = TRUE], 4)

\* RetI::execute: the return of Ret, then cpu_flags.IME = 1 (the only value
\* the boolean field can take for 1 is true; the documentation test reads
\* it back as 1)
RetI(regs, mem, fl) ==
    Ret(regs, mem, [fl EXCEPT !.IME = TRUE], 4)

\* JpToOffset::execute and the taken branch of JpToOffsetIf::execute:
\* registers.PC += self.operand as u16
JpToOffset(i, regs, mem, fl) ==
    IF add16_aborts(regs.PC, i.operand) THEN ExecPanic(regs, mem, fl)
    ELSE ExecOk([regs EXCEPT !.PC = wrapping_add16(regs.PC, i.operand)],
                mem, fl, 3)

\* get_reset_address
get_reset_address(opcode) == And8(opcode, 56)

\* a faulty dispatch: the conditional forms ignore their condition
ControlFlow_execute_unconditionally(i, regs, mem, fl) ==
    CASE i.name \in {"JP", "JPC"} ->
            ExecOk([regs EXCEPT !.PC = i.operand], mem, fl, 4)
      [] i.name = "JP_HL" ->
            ExecOk([regs EXCEPT !.PC = get_double(regs, "HL")], mem, fl, 1)
      [] i.name \in {"JR", "JRC"} -> JpToOffset(i, regs, mem, fl)
      [] i.name \in {"CALL", "CALLC"} -> Call(i, regs, mem, fl)
      [] i.name = "RET" -> Ret(regs, mem, fl, 4)
      [] i.name = "RETC" -> Ret(regs, mem, fl, 5)
      [] i.name = "RETI" -> RetI(regs, mem, fl)
      [] i.name = "RST" ->
            ExecOk([regs EXCEPT !.PC = get_reset_address(i.operand)], mem, fl, 4)

\* ControlFlow::execute
ControlFlow_execute(i, regs, mem, fl) ==
    CASE i.name = "JP" -> ExecOk([regs EXCEPT !.PC = i.operand], mem, fl, 4)
      [] i.name = "JPC" ->
            IF is_fulfilled(i.condition, regs)
            THEN ExecOk([regs EXCEPT !.PC = i.operand], mem, fl, 4)
            ELSE ExecOk(regs, mem, fl, 3)
      [] i.name = "JP_HL" ->
            ExecOk([regs EXCEPT !.PC = get_double(regs, "HL")], mem, fl, 1)
      [] i.name = "JR" -> JpToOffset(i, regs, mem, fl)
      [] i.name = "JRC" ->
            IF is_fulfilled(i.condition, regs) THEN JpToOffset(i, regs, mem, fl)
            ELSE ExecOk(regs, mem, fl, 2)
      [] i.name = "CALL" -> Call(i, regs, mem, fl)
      [] i.name = "CALLC" ->
            IF is_fulfilled(i.condition, regs) THEN Call(i, regs, mem, fl)
            ELSE ExecOk(regs, mem, fl, 3)
      [] i.name = "RET" -> Ret(regs, mem, fl, 4)
      [] i.name = "RETC" ->
            IF is_fulfilled(i.condition, regs) THEN Ret(regs, mem, fl, 5)
            ELSE ExecOk(regs, mem, fl, 2)
      [] i.name = "RETI" -> RetI(regs, mem, fl)
      [] i.name = "RST" ->
            ExecOk([regs EXCEPT !.PC = get_reset_address(i.operand)], mem, fl, 4)

\* ControlFlow::length
ControlFlow_length(i) ==
    CASE i.name \in {"JP", "JPC", "CALL", "CALLC"} -> 3
      [] i.name \in {"JR", "JRC"} -> 2
      [] OTHER -> 1

-----------------------------------------------------------------------------
(* instructions/misc.rs                                                    *)

\* utils::twos_complement: the inverse of the number plus 1
twos_complement(x) == wrapping_add8(Not8(x), 1)

\* a faulty adjustment: HalfCarry is left as it was
DAA_keeping_half_carry(regs) ==
    LET a == get_single(regs, "A")
        c1 == IF is_half_carry(regs) \/ And8(a, 15) > 9 THEN 6 ELSE 0
        high == is_carry(regs) \/ a > 153
        c2 == IF high THEN Or8(c1, 96) ELSE c1
        f0 == And8(get_flags(regs), MASK_FLAG_HALF_CARRY)
        f1 == IF high THEN Or8(f0, MASK_FLAG_CARRY) ELSE f0
        bcd_correction == IF is_negative(regs) THEN twos_complement(c2) ELSE c2
        bcd == wrapping_add8(a, bcd_correction)
        f2 == IF bcd = 0 THEN Or8(f1, MASK_FLAG_ZERO) ELSE f1
    IN set_flags(set_single(regs, "A", bcd), f2)

\* a faulty adjustment: the corrections follow the flags H and C alone
DAA_by_flags_alone(regs) ==
    LET a == get_single(regs, "A")
        c1 == IF is_half_carry(regs) THEN 6 ELSE 0
        high == is_carry(regs)
        c2 == IF high THEN Or8(c1, 96) ELSE c1
        f1 == IF high THEN MASK_FLAG_CARRY ELSE 0
        bcd_correction == IF is_negative(regs) THEN twos_complement(c2) ELSE c2
        bcd == wrapping_add8(a, bcd_correction)
        f2 == IF bcd = 0 THEN Or8(f1, MASK_FLAG_ZERO) ELSE f1
    IN set_flags(set_single(regs, "A", bcd), f2)

\* Misc::DAA
DAA(regs) ==
    LET a == get_single(regs, "A")
        c1 == IF is_half_carry(regs) \/ And8(a, 15) > 9 THEN 6 ELSE 0
        high == is_carry(regs) \/ a > 153
        c2 == IF high THEN Or8(c1, 96) ELSE c1
        f1 == IF high THEN MASK_FLAG_CARRY ELSE 0
        bcd_correction == IF is_negative(regs) THEN twos_complement(c2) ELSE c2
        bcd == wrapping_add8(a, bcd_correction)
        f2 == IF bcd = 0 THEN Or8(f1, MASK_FLAG_ZERO) ELSE f1
    IN set_flags(set_single(regs, "A", bcd), f2)

\* a faulty execute: EI enables interrupts at once and schedules them too
Misc_execute_EI_enabling_at_once(i, regs, mem, fl) ==
    CASE i.name = "NOP" -> ExecOk(regs, mem, fl, 1)
      [] i.name = "DI" -> ExecOk(regs, mem, [fl EXCEPT !.IME = FALSE], 1)
      [] i.name = "EI" -> ExecOk(regs, mem, [fl EXCEPT !.IME = TRUE, !.IME_scheduled = TRUE], 1)
      [] i.name = "CCF" ->
            ExecOk(set_flags(regs, Xor8(And8(get_flags(regs), 144), 16)), mem, fl, 1)
      [] i.name = "SCF" ->
            ExecOk(set_flags(regs, Or8(And8(get_flags(regs), 144), 16)), mem, fl, 1)
      [] i.name = "DAA" -> ExecOk(DAA(regs), mem, fl, 1)
      [] i.name = "CPL" ->
            LET f == Or8(get_flags(regs), 96)
                value == Xor8(get_single(regs, "A"), 255)
            IN ExecOk(set_single(set_flags(regs, f), "A", value), mem, fl, 1)

\* a faulty execute: DI cancels a scheduled enabling and leaves IME alone
Misc_execute_DI_cancelling_schedule(i, regs, mem, fl) ==
    CASE i.name = "NOP" -> ExecOk(regs, mem, fl, 1)
      [] i.name = "DI" -> ExecOk(regs, mem, [fl EXCEPT !.IME_scheduled = FALSE], 1)
      [] i.name = "EI" -> ExecOk(regs, mem, [fl EXCEPT !.IME_scheduled = TRUE], 1)
      [] i.name = "CCF" ->
            ExecOk(set_flags(regs, Xor8(And8(get_flags(regs), 144), 16)), mem, fl, 1)
      [] i.name = "SCF" ->
            ExecOk(set_flags(regs, Or8(And8(get_flags(regs), 144), 16)), mem, fl, 1)
      [] i.name = "DAA" -> ExecOk(DAA(regs), mem, fl, 1)
      [] i.name = "CPL" ->
            LET f == Or8(get_flags(regs), 96)
                value == Xor8(get_single(regs, "A"), 255)
            IN ExecOk(set_single(set_flags(regs, f), "A", value), mem, fl, 1)

\* Misc::execute
Misc_execute(i, regs, mem, fl) ==
    CASE i.name = "NOP" -> ExecOk(regs, mem, fl, 1)
      [] i.name = "DI" -> ExecOk(regs, mem, [fl EXCEPT !.IME = FALSE], 1)
      [] i.name = "EI" -> ExecOk(regs, mem, [fl EXCEPT !.IME_scheduled = TRUE], 1)
      [] i.name = "CCF" ->
            ExecOk(set_flags(regs, Xor8(And8(get_flags(regs), 144), 16)), mem, fl, 1)
      [] i.name = "SCF" ->
            ExecOk(set_flags(regs, Or8(And8(get_flags(regs), 144), 16)), mem, fl, 1)
      [] i.name = "DAA" -> ExecOk(DAA(regs), mem, fl, 1)
      [] i.name = "CPL" ->
            LET f == Or8(get_flags(regs), 96)
                value == Xor8(get_single(regs, "A"), 255)
            IN ExecOk(set_single(set_flags(regs, f), "A", value), mem, fl, 1)

\* Misc::length
Misc_length(i) == 1

-----------------------------------------------------------------------------
(* instructions/load_8bit.rs                                               *)

\* Load8Bit::execute
Load8Bit_execute(i, regs, mem, fl) ==
    LET hl == get_double(regs, "HL")
        a == get_single(regs, "A")
        SetA(v) == set_single(regs, "A", v)
    IN CASE i.name = "LD" ->
              ExecOk(set_single(regs, i.r, get_single(regs, i.r2)), mem, fl, 1)
         [] i.name = "LD_FROM_HL" ->
              ExecOk(set_single(regs, i.r, get(mem, hl)), mem, fl, 2)
         [] i.name = "LD_TO_HL" ->
              ExecOk(regs, set(mem, hl, get_single(regs, i.r)), fl, 2)
         [] i.name = "LD_N" ->
              ExecOk(set_single(regs, i.r, i.operand), mem, fl, 2)
         [] i.name = "LD_N_TO_HL" ->
              ExecOk(regs, set(mem, hl, i.operand), fl, 3)
         [] i.name = "LD_BC_TO_A" ->
              ExecOk(SetA(get(mem, get_double(regs, "BC"))), mem, fl, 2)
         [] i.name = "LD_DE_TO_A" ->
              ExecOk(SetA(get(mem, get_double(regs, "DE"))), mem, fl, 2)
         [] i.name = "LD_A_TO_BC" ->
              ExecOk(regs, set(mem, get_double(regs, "BC"), a), fl, 2)
         [] i.name = "LD_A_TO_DE" ->
              ExecOk(regs, set(mem, get_double(regs, "DE"), a), fl, 2)
         [] i.name = "LD_TO_A" ->
              ExecOk(SetA(get(mem, i.operand)), mem, fl, 4)
         [] i.name = "LD_FROM_A" ->
              ExecOk(regs, set(mem, i.operand, a), fl, 4)
         [] i.name = "LDH_C_TO_A" ->
              ExecOk(SetA(get(mem, 65280 + get_single(regs, "C"))), mem, fl, 2)
         [] i.name = "LDH_C_FROM_A" ->
              ExecOk(regs, set(mem, 65280 + get_single(regs, "C"), a), fl, 2)
         [] i.name = "LDH_TO_A" ->
              ExecOk(SetA(get(mem, 65280 + i.operand)), mem, fl, 3)
         [] i.name = "LDH_FROM_A" ->
              ExecOk(regs, set(mem, 65280 + i.operand, a), fl, 3)
         [] i.name = "LD_A_FROM_HL_DEC" ->
              IF sub16_aborts(hl, 1) THEN ExecPanic(regs, mem, fl)
              ELSE ExecOk(set_single(set_double(regs, "HL", wrapping_sub16(hl, 1)),
                                     "A", get(mem, hl)), mem, fl, 2)
         [] i.name = "LD_A_TO_HL_DEC" ->
              IF sub16_aborts(hl, 1) THEN ExecPanic(regs, mem, fl)
              ELSE ExecOk(set_double(regs, "HL", wrapping_sub16(hl, 1)),
                          set(mem, hl, a), fl, 2)
         [] i.name = "LD_A_FROM_HL_INC" ->
              IF add16_aborts(hl, 1) THEN ExecPanic(regs, mem, fl)
              ELSE ExecOk(set_single(set_double(regs, "HL", wrapping_add16(hl, 1)),
                                     "A", get(mem, hl)), mem, fl, 2)
         [] i.name = "LD_A_TO_HL_INC" ->
              IF add16_aborts(hl, 1) THEN ExecPanic(regs, mem, fl)
              ELSE ExecOk(set_double(regs, "HL", wrapping_add16(hl, 1)),
                          set(mem, hl, a), fl, 2)

\* Load8Bit::length
Load8Bit_length(i) ==
    CASE i.name \in {"LD_TO_A", "LD_FROM_A"} -> 3
      [] i.name \in {"LD_N", "LD_N_TO_HL", "LDH_TO_A", "LDH_FROM_A"} -> 2
      [] OTHER -> 1

-----------------------------------------------------------------------------
(* instructions/load_16bit.rs                                              *)

\* Registers::decrement_sp followed by memory.set_u16(sp, value): Load16Bit::PUSH
PUSH(i, regs, mem, fl) ==
    IF sub16_aborts(regs.SP, 2) THEN ExecPanic(regs, mem, fl)
    ELSE LET sp == wrapping_sub16(regs.SP, 2)
             regs1 == [regs EXCEPT !.SP = sp]
             value == get_double(regs1, i.r)
         IN IF ~InBounds(sp + 1) THEN ExecPanic(regs, mem, fl)
            ELSE ExecOk(regs1, set_u16(mem, sp, value), fl, 4)

\* a faulty POP: SP is left where it was
POP_without_increment(i, regs, mem, fl) ==
    LET sp == get_double(regs, "SP")
    IN IF ~InBounds(sp + 1) THEN ExecPanic(regs, mem, fl)
       ELSE ExecOk(set_double(regs, i.r, get_u16(mem, sp)), mem, fl, 3)

\* Load16Bit::POP: memory.get_u16(sp), set_double, Registers::increment_sp
POP(i, regs, mem, fl) ==
    LET sp == get_double(regs, "SP")
    IN IF ~InBounds(sp + 1) THEN ExecPanic(regs, mem, fl)
       ELSE LET regs1 == set_double(regs, i.r, get_u16(mem, sp))
            IN IF add16_aborts(regs1.SP, 2) THEN ExecPanic(regs, mem, fl)
               ELSE ExecOk([regs1 EXCEPT !.SP = wrapping_add16(regs1.SP, 2)],
                           mem, fl, 3)

\* Load16Bit::execute
Load16Bit_execute(i, regs, mem, fl) ==
    CASE i.name = "LD" -> ExecOk(set_double(regs, i.r, i.operand), mem, fl, 3)
      [] i.name = "LD_FROM_SP" ->
            IF ~InBounds(i.operand + 1) THEN ExecPanic(regs, mem, fl)
            ELSE ExecOk(regs, set_u16(mem, i.operand, get_double(regs, "SP")), fl, 5)
      [] i.name = "LD_HL_TO_SP" ->
            ExecOk(set_double(regs, "SP", get_double(regs, "HL")), mem, fl, 2)
      [] i.name = "PUSH" -> PUSH(i, regs, mem, fl)
      [] i.name = "POP" -> POP(i, regs, mem, fl)

\* Load16Bit::length
Load16Bit_length(i) ==
    IF i.name \in {"LD", "LD_FROM_SP"} THEN 3 ELSE 1

-----------------------------------------------------------------------------
(* instructions/alu_16bit.rs                                               *)

\* the flags ADD_HL and ADD_SP compute on top of `keep`
Add16Flags(keep, x, operand) ==
    LET c == IF overflowing_add16(x, operand).overflow THEN MASK_FLAG_CARRY ELSE 0
        h == IF (x % 4096) + (operand % 4096) > 4096 THEN MASK_FLAG_HALF_CARRY ELSE 0
    IN Or8(Or8(keep, c), h)

\* ALU16Bit::execute
ALU16Bit_execute(i, regs, mem, fl) ==
    CASE i.name = "ADD_HL" ->
            LET hl == get_double(regs, "HL")
                operand == get_double(regs, i.r)
                result == overflowing_add16(hl, operand).result
                f == Add16Flags(And8(get_flags(regs), MASK_FLAG_ZERO), hl, operand)
            IN ExecOk(set_flags(set_double(regs, "HL", result), f), mem, fl, 2)
      [] i.name = "ADD_SP" ->
            LET sp == get_double(regs, "SP")
                result == overflowing_add16(sp, i.operand).result
                f == Add16Flags(0, sp, i.operand)
            IN ExecOk(set_flags(set_double(regs, "SP", result), f), mem, fl, 4)
      [] i.name = "INC" ->
            ExecOk(set_double(regs, i.r, wrapping_add16(get_double(regs, i.r), 1)),
                   mem, fl, 2)
      [] i.name = "DEC" ->
            ExecOk(set_double(regs, i.r, wrapping_sub16(get_double(regs, i.r), 1)),
                   mem, fl, 2)

\* ALU16Bit::length
ALU16Bit_length(i) == IF i.name = "ADD_SP" THEN 2 ELSE 1

-----------------------------------------------------------------------------
(* instructions/utils.rs, instructions/bit.rs                              *)

\* utils::get_register_value: (value, Some(register)) or, for the register
\* code 110, (memory at HL, None)
get_register_value(regs, mem, operand) ==
    LET b == into_bits(operand)
    IN IF b[6] = 1 /\ b[7] = 1 /\ b[8] = 0
       THEN [value |-> get(mem, get_double(regs, "HL")), register |-> "None"]
       ELSE LET r == SingleRegister_from(b[6], b[7], b[8])
            IN [value |-> get_single(regs, r), register |-> r]

\* a faulty tail: the flags are cleared when the result is stored
StoreTarget_clearing_flags(target, result, regs, mem, fl) ==
    IF target.register # "None"
    THEN ExecOk(set_flags(set_single(regs, target.register, result), 0), mem, fl, 2)
    ELSE ExecOk(set_flags(regs, 0), set(mem, get_double(regs, "HL"), result), fl, 4)

\* the tail of the addressable instructions: store result in the register
\* (2 cycles) or at (HL) (4 cycles)
StoreTarget(target, result, regs, mem, fl) ==
    IF target.register # "None"
    THEN ExecOk(set_single(regs, target.register, result), mem, fl, 2)
    ELSE ExecOk(regs, set(mem, get_double(regs, "HL"), result), fl, 4)

\* a faulty mask: the bit is taken from the low three bits of the operand
get_bit_mask_of_register_code(operand) == 2 ^ (operand % 8)

\* bit::get_bit_mask: 1 << ((operand >> 3) & 0b111)
get_bit_mask(operand) == 2 ^ ((operand \div 8) % 8)

\* Bit::execute
Bit_execute(i, regs, mem, fl) ==
    LET target == get_register_value(regs, mem, i.operand)
        bit_mask == get_bit_mask(i.operand)
    IN CASE i.name = "BIT" ->
              LET designated_bit == And8(target.value, bit_mask)
                  regs1 == set_half_carry(
                               set_negative(set_zero(regs, designated_bit = 0), FALSE),
                               TRUE)
              IN ExecOk(regs1, mem, fl, IF target.register # "None" THEN 2 ELSE 3)
         [] i.name = "SET" ->
              StoreTarget(target, Or8(target.value, bit_mask), regs, mem, fl)
         [] i.name = "RES" ->
              StoreTarget(target, And8(target.value, Not8(bit_mask)), regs, mem, fl)

\* Bit::length
Bit_length(i) == 2

-----------------------------------------------------------------------------
(* instructions/rotate_shift.rs                                            *)

\* OpConfig, all fields false by default
OpConfig(add_carry, set_z, repeat_tail) ==
    [add_carry |-> add_carry, set_z |-> set_z, repeat_tail |-> repeat_tail]

\* a faulty operation: the tail bit is never repeated
Op_execute_without_tail(op, x, f, config) ==
    LET left == op \in {"RotateLeft", "ShiftLeft"}
        result0 == CASE op = "RotateLeft" -> ((x * 2) % 256) + (x \div 128)
                     [] op = "RotateRight" -> (x \div 2) + 128 * (x % 2)
                     [] op = "ShiftLeft" -> (x * 2) % 256
                     [] op = "ShiftRight" -> x \div 2
        to_carry == IF left THEN And8(x, 128) ELSE And8(x, 1)
        from_carry == IF left THEN 1 ELSE 128
        result == IF config.add_carry /\ And8(f, MASK_FLAG_CARRY) > 0
                  THEN Or8(result0, from_carry) ELSE result0
        f1 == IF to_carry > 0 THEN Or8(f, MASK_FLAG_CARRY)
              ELSE And8(f, Not8(MASK_FLAG_CARRY))
        f2 == IF config.set_z /\ result = 0 THEN Or8(f1, MASK_FLAG_ZERO)
              ELSE IF config.set_z THEN And8(f1, Not8(MASK_FLAG_ZERO))
              ELSE f1
    IN [result |-> result, flags |-> f2]

\* a faulty Op::execute: Carry receives the bit that stays at the vacated
\* end instead of the bit that leaves
Op_execute_carry_from_tail(op, x, f, config) ==
    LET left == op \in {"RotateLeft", "ShiftLeft"}
        result0 == CASE op = "RotateLeft" -> ((x * 2) % 256) + (x \div 128)
                     [] op = "RotateRight" -> (x \div 2) + 128 * (x % 2)
                     [] op = "ShiftLeft" -> (x * 2) % 256
                     [] op = "ShiftRight" -> x \div 2
        to_carry == IF left THEN And8(x, 1) ELSE And8(x, 128)
        from_carry == IF left THEN 1 ELSE 128
        tail_bit == IF left THEN And8(x, 1) ELSE And8(x, 128)
        result1 == IF config.add_carry /\ And8(f, MASK_FLAG_CARRY) > 0
                   THEN Or8(result0, from_carry) ELSE result0
        result == IF config.repeat_tail THEN Or8(result1, tail_bit) ELSE result1
        f1 == IF to_carry > 0 THEN Or8(f, MASK_FLAG_CARRY)
              ELSE And8(f, Not8(MASK_FLAG_CARRY))
        f2 == IF config.set_z /\ result = 0 THEN Or8(f1, MASK_FLAG_ZERO)
              ELSE IF config.set_z THEN And8(f1, Not8(MASK_FLAG_ZERO))
              ELSE f1
    IN [result |-> result, flags |-> f2]

\* Op::execute: (result, flags)
Op_execute(op, x, f, config) ==
    LET left == op \in {"RotateLeft", "ShiftLeft"}
        result0 == CASE op = "RotateLeft" -> ((x * 2) % 256) + (x \div 128)
                     [] op = "RotateRight" -> (x \div 2) + 128 * (x % 2)
                     [] op = "ShiftLeft" -> (x * 2) % 256
                     [] op = "ShiftRight" -> x \div 2
        to_carry == IF left THEN And8(x, 128) ELSE And8(x, 1)
        from_carry == IF left THEN 1 ELSE 128
        tail_bit == IF left THEN And8(x, 1) ELSE And8(x, 128)
        result1 == IF config.add_carry /\ And8(f, MASK_FLAG_CARRY) > 0
                   THEN Or8(result0, from_carry) ELSE result0
        result == IF config.repeat_tail THEN Or8(result1, tail_bit) ELSE result1
        f1 == IF to_carry > 0 THEN Or8(f, MASK_FLAG_CARRY)
              ELSE And8(f, Not8(MASK_FLAG_CARRY))
        f2 == IF config.set_z /\ result = 0 THEN Or8(f1, MASK_FLAG_ZERO)
              ELSE IF config.set_z THEN And8(f1, Not8(MASK_FLAG_ZERO))
              ELSE f1
    IN [result |-> result, flags |-> f2]

\* RLCA RLA RRCA RRA: on register A, 1 cycle
RotateShift_accumulator(i, regs, mem, fl) ==
    LET value == get_single(regs, "A")
        carry == And8(get_flags(regs), MASK_FLAG_CARRY)
        res == CASE i.name = "RLCA" ->
                      Op_execute("RotateLeft", value, 0, OpConfig(FALSE, FALSE, FALSE))
                 [] i.name = "RLA" ->
                      Op_execute("RotateLeft", value, carry, OpConfig(TRUE, FALSE, FALSE))
                 [] i.name = "RRCA" ->
                      Op_execute("RotateRight", value, 0, OpConfig(FALSE, FALSE, FALSE))
                 [] i.name = "RRA" ->
                      Op_execute("RotateRight", value, carry, OpConfig(TRUE, FALSE, FALSE))
    IN ExecOk(set_flags(set_single(regs, "A", res.result), res.flags), mem, fl, 1)

\* faulty addressable instructions: SWAP copies the low nibble to the high
\* nibble and keeps the low nibble
RotateShift_addressable_swap_low_only(i, regs, mem, fl) ==
    LET target == get_register_value(regs, mem, i.operand)
        value == target.value
        carry == And8(get_flags(regs), MASK_FLAG_CARRY)
        res == CASE i.name = "RLC" ->
                      Op_execute("RotateLeft", value, 0, OpConfig(FALSE, TRUE, FALSE))
                 [] i.name = "RL" ->
                      Op_execute("RotateLeft", value, carry, OpConfig(TRUE, TRUE, FALSE))
                 [] i.name = "RRC" ->
                      Op_execute("RotateRight", value, 0, OpConfig(FALSE, TRUE, FALSE))
                 [] i.name = "RR" ->
                      Op_execute("RotateRight", value, carry, OpConfig(TRUE, TRUE, FALSE))
                 [] i.name = "SLA" ->
                      Op_execute("ShiftLeft", value, 0, OpConfig(FALSE, TRUE, FALSE))
                 [] i.name = "SRA" ->
                      Op_execute("ShiftRight", value, 0, OpConfig(FALSE, TRUE, TRUE))
                 [] i.name = "SRL" ->
                      Op_execute("ShiftRight", value, 0, OpConfig(FALSE, TRUE, FALSE))
                 [] i.name = "SWAP" ->
                      [result |-> (And8(value, 15) * 16) + And8(value, 15),
                       flags |-> IF value = 0 THEN MASK_FLAG_ZERO ELSE 0]
    IN StoreTarget(target, res.result, set_flags(regs, res.flags), mem, fl)

\* RLC RL RRC RR SLA SRA SRL SWAP: on the target the operand selects
RotateShift_addressable(i, regs, mem, fl) ==
    LET target == get_register_value(regs, mem, i.operand)
        value == target.value
        carry == And8(get_flags(regs), MASK_FLAG_CARRY)
        res == CASE i.name = "RLC" ->
                      Op_execute("RotateLeft", value, 0, OpConfig(FALSE, TRUE, FALSE))
                 [] i.name = "RL" ->
                      Op_execute("RotateLeft", value, carry, OpConfig(TRUE, TRUE, FALSE))
                 [] i.name = "RRC" ->
                      Op_execute("RotateRight", value, 0, OpConfig(FALSE, TRUE, FALSE))
                 [] i.name = "RR" ->
                      Op_execute("RotateRight", value, carry, OpConfig(TRUE, TRUE, FALSE))
                 [] i.name = "SLA" ->
                      Op_execute("ShiftLeft", value, 0, OpConfig(FALSE, TRUE, FALSE))
                 [] i.name = "SRA" ->
                      Op_execute("ShiftRight", value, 0, OpConfig(FALSE, TRUE, TRUE))
                 [] i.name = "SRL" ->
                      Op_execute("ShiftRight", value, 0, OpConfig(FALSE, TRUE, FALSE))
                 [] i.name = "SWAP" ->
                      [result |-> (And8(value, 15) * 16) + (And8(value, 240) \div 16),
                       flags |-> IF value = 0 THEN MASK_FLAG_ZERO ELSE 0]
    IN StoreTarget(target, res.result, set_flags(regs, res.flags), mem, fl)

\* RotateShift::execute
RotateShift_execute(i, regs, mem, fl) ==
    IF i.name \in {"RLCA", "RLA", "RRCA", "RRA"}
    THEN RotateShift_accumulator(i, regs, mem, fl)
    ELSE RotateShift_addressable(i, regs, mem, fl)

\* RotateShift::length
RotateShift_length(i) ==
    IF i.name \in {"RLCA", "RLA", "RRCA", "RRA"} THEN 1 ELSE 2

-----------------------------------------------------------------------------
(* macros.rs: combine_instructions! gives Instruction::execute and         *)
(* Instruction::length, which dispatch on the group.                       *)

execute(i, regs, mem, fl) ==
    CASE i.group = "ALU16Bit" -> ALU16Bit_execute(i, regs, mem, fl)
      [] i.group = "ALU8Bit" -> ALU8Bit_execute(i, regs, mem, fl)
      [] i.group = "Bit" -> Bit_execute(i, regs, mem, fl)
      [] i.group = "ControlFlow" -> ControlFlow_execute(i, regs, mem, fl)
      [] i.group = "Load8Bit" -> Load8Bit_execute(i, regs, mem, fl)
      [] i.group = "Load16Bit" -> Load16Bit_execute(i, regs, mem, fl)
      [] i.group = "Misc" -> Misc_execute(i, regs, mem, fl)
      [] i.group = "RotateShift" -> RotateShift_execute(i, regs, mem, fl)

length(i) ==
    CASE i.group = "ALU16Bit" -> ALU16Bit_length(i)
      [] i.group = "ALU8Bit" -> ALU8Bit_length(i)
      [] i.group = "Bit" -> Bit_length(i)
      [] i.group = "ControlFlow" -> ControlFlow_length(i)
      [] i.group = "Load8Bit" -> Load8Bit_length(i)
      [] i.group = "Load16Bit" -> Load16Bit_length(i)
      [] i.group = "Misc" -> Misc_length(i)
      [] i.group = "RotateShift" -> RotateShift_length(i)

-----------------------------------------------------------------------------
(* cpu.rs: CPU::tick                                                       *)

\* what tick returns, and the registers, memory and flags it leaves
Ticked(result, instruction, opcode, location, regs, mem, fl) ==
    [result |-> result, instruction |-> instruction, opcode |-> opcode,
     location |-> location, registers |-> regs, memory |-> mem, flags |-> fl]

\* a faulty return at `decode(..)?`: PC has already moved past the opcode
decode_failed_after_advance(d, opcode, regs, mem, fl) ==
    Ticked(d.result, d.instruction, opcode, regs.PC,
           [regs EXCEPT !.PC = wrapping_add16(regs.PC, 1)], mem, fl)

\* tick's return at `decode(..)?`: nothing has been written yet
decode_failed(d, opcode, regs, mem, fl) ==
    Ticked(d.result, d.instruction, opcode, regs.PC, regs, mem, fl)

\* a faulty enabling: the schedule is dropped and IME is not set
enable_scheduled_dropped(fl) == [fl EXCEPT !.IME_scheduled = FALSE]

\* a faulty enabling: IME is set and the schedule is kept
enable_scheduled_kept(fl) ==
    IF fl.IME_scheduled THEN [fl EXCEPT !.IME = TRUE] ELSE fl

\* tick: if self.flags.IME_scheduled { IME = true; IME_scheduled = false }
enable_scheduled(fl) ==
    IF fl.IME_scheduled
    THEN [fl EXCEPT !.IME = TRUE, !.IME_scheduled = FALSE]
    ELSE fl

\* the only element of a one-element set: names a value computed once
The(S) == CHOOSE x \in S : TRUE

\* a faulty step: the instruction executes at the PC of its own opcode and PC
\* is advanced afterwards
tick_decoded_advancing_afterwards(instruction, opcode, regs, mem, fl) ==
    The({IF e.result = "panic" \/ add16_aborts(e.registers.PC, length(instruction))
         THEN Ticked("panic", instruction, opcode, regs.PC, regs, mem, fl)
         ELSE Ticked(e.result, instruction, opcode, regs.PC,
                     [e.registers EXCEPT
                        !.PC = wrapping_add16(e.registers.PC, length(instruction))],
                     e.memory, e.flags) :
         e \in {execute(instruction, regs, mem, fl1) :
                fl1 \in {enable_scheduled(fl)}}})

\* tick from `registers.PC += instruction.length()` on, for the instruction
\* decode returned
tick_decoded(instruction, opcode, regs, mem, fl) ==
    IF add16_aborts(regs.PC, length(instruction))
    THEN Ticked("panic", instruction, opcode, regs.PC, regs, mem, fl)
    ELSE The({IF e.result = "panic"
              THEN Ticked("panic", instruction, opcode, regs.PC, regs, mem, fl)
              ELSE Ticked(e.result, instruction, opcode, regs.PC,
                          e.registers, e.memory, e.flags) :
              e \in {execute(instruction, regs1, mem, fl1) :
                     regs1 \in {[regs EXCEPT
                                   !.PC = wrapping_add16(regs.PC, length(instruction))]},
                     fl1 \in {enable_scheduled(fl)}}})

\* CPU::tick: Ok((instruction_location, instruction)) or an Err(CpuError)
tick(regs, mem, fl) ==
    The({IF d.result # "Ok"
         THEN decode_failed(d, opcode, regs, mem, fl)
         ELSE The({tick_decoded(instruction, opcode, regs, mem, fl) :
                   instruction \in {d.instruction}}) :
         opcode \in {get(mem, regs.PC)},
         d \in {decode(get(mem, regs.PC), regs.PC, mem)}})

-----------------------------------------------------------------------------
(* The state machine.  `last` records the operation performed last: which  *)
(* one (op), its arguments (instruction; r and value for the setters), and *)
(* what it returned (result, and for tick the location, for execute the   *)
(* cycles).  After an abort ("panic") the program performs nothing more.   *)

Last(op, result, instruction, location, cycles, r, value) ==
    [result |-> result, r |-> r, value |-> value, location |-> location,
     instruction |-> instruction, cycles |-> cycles, op |-> op]

Running == last.result # "panic" /\ ops < MaxOps

\* the state an operation starts from
Snapshot == [registers |-> registers, memory |-> memory, flags |-> flags]

\* every operation counts, and leaves the state it started from in `before`
Performed ==
    /\ before' = Snapshot
    /\ ops' = ops + 1
    /\ UNCHANGED overflow_checks

\* registers.set_single(&r, value)
SetSingle(r, value) ==
    /\ Running
    /\ registers' = set_single(registers, r, value)
    /\ last' = Last("set_single", "Ok", Instr("-", "-"), 0, 0, r, value)
    /\ Performed
    /\ UNCHANGED <<memory, flags>>

\* registers.set_double(&r, value)
SetDouble(r, value) ==
    /\ Running
    /\ registers' = set_double(registers, r, value)
    /\ last' = Last("set_double", "Ok", Instr("-", "-"), 0, 0, r, value)
    /\ Performed
    /\ UNCHANGED <<memory, flags>>

\* memory.set(location, value)
MemorySet(location, value) ==
    /\ Running
    /\ memory' = set(memory, location, value)
    /\ last' = Last("set", "Ok", Instr("-", "-"), location, 0, "-", value)
    /\ Performed
    /\ UNCHANGED <<registers, flags>>

\* cpu.tick(&mut registers, &mut memory)
Tick ==
    /\ Running
    /\ \E t \in {tick(registers, memory, flags)} :
          /\ registers' = t.registers
          /\ memory' = t.memory
          /\ flags' = t.flags
          /\ last' = Last("tick", t.result, t.instruction, t.location, 0, "-", t.opcode)
    /\ Performed

\* instruction.execute(&mut registers, &mut memory, &mut cpu_flags) on an
\* instruction the caller constructed
Execute(i) ==
    /\ Running
    /\ \E e \in {execute(i, registers, memory, flags)} :
          /\ registers' = e.registers
          /\ memory' = e.memory
          /\ flags' = e.flags
          /\ last' = Last("execute", e.result, i, 0, e.cycles, "-", 0)
    /\ Performed

-----------------------------------------------------------------------------
(* Spec: a CPU, register file and memory from their constructors, driven   *)
(* through the public interface.                                           *)

New == Last("new", "Ok", Instr("-", "-"), 0, 0, "-", 0)

Init ==
    /\ registers = Registers_new
    /\ memory = Memory_new
    /\ flags = CpuFlags_new
    /\ last = New
    /\ before = Snapshot
    /\ ops = 0
    /\ overflow_checks \in BOOLEAN

\* the values the caller writes to single and double registers
SingleValues == {255}
DoubleValues == {43981}

\* the program bytes the caller stores, and where
ProgramBytes == {251, 211, 118, 241}
ProgramLocations == {0, 1}

\* instructions the caller constructs and executes directly
Constructed ==
    {InstrR("ALU8Bit", "ADD", "F"), InstrR("ALU8Bit", "ADD", "B"),
     InstrR("Load16Bit", "POP", "AF"), InstrR("Load16Bit", "PUSH", "BC"),
     Instr("Misc", "CPL")}

WriteSingle == \E r \in SingleRegister, v \in SingleValues : SetSingle(r, v)
WriteDouble == \E r \in DoubleRegister, v \in DoubleValues : SetDouble(r, v)
WriteMemory == \E a \in ProgramLocations, v \in ProgramBytes : MemorySet(a, v)
ExecuteConstructed == \E i \in Constructed : Execute(i)

Next ==
    \/ WriteSingle
    \/ WriteDouble
    \/ WriteMemory
    \/ Tick
    \/ ExecuteConstructed

Spec == Init /\ [][Next]_vars

-----------------------------------------------------------------------------
(* SpecStep: the stepper alone.  A step starts at one of the addresses      *)
(* StepPCs with any opcode there, operand bytes behind it where the memory  *)
(* has them, any interrupt flags and flags Z,N,H,C all clear or all set;    *)
(* further steps run on from wherever the first one leaves PC.              *)

StepPCs == {0, 1152, 65533, 65534, 65535}
StepOperands == {250, 5}
StepSecondOperand == 4
StepFlags == {0, 240}

\* memory holding the given bytes from location on, as far as memory goes
Program(location, bytes) ==
    LET RECURSIVE store(_, _)
        store(mem, n) ==
            IF n > Len(bytes) THEN mem
            ELSE IF ~InBounds(location + n - 1) THEN mem
            ELSE store(set(mem, location + n - 1, bytes[n]), n + 1)
    IN store(Memory_new, 1)

StepInit ==
    /\ \E pc \in StepPCs, opcode \in 0..255, f \in StepFlags :
         /\ registers = set_single([Registers_new EXCEPT !.PC = pc], "F", f)
         /\ \E operand \in (IF opcode = 203 THEN 0..255 ELSE StepOperands) :
              memory = Program(pc, <<opcode, operand, StepSecondOperand>>)
    /\ flags \in [IME : BOOLEAN, IME_scheduled : BOOLEAN]
    /\ last = New
    /\ before = Snapshot
    /\ ops = 0
    /\ overflow_checks \in BOOLEAN

StepNext == Tick

SpecStep == StepInit /\ [][StepNext]_vars

-----------------------------------------------------------------------------
(* Single instructions, executed once on each start state.                  *)

ExecuteOnce(i) == ops = 0 /\ Execute(i)

\* the 16 values register F can hold
FlagStates == {16 * n : n \in 0..15}

(* SpecAlu: INC and DEC of every register and of (HL), and the other        *)
(* register variants on F.  B and the byte at (HL) take every value, F      *)
(* every flag state; A is 0x3A and HL is 0xC000.                            *)

AluInit ==
    /\ \E v \in 0..255, f \in FlagStates :
         /\ registers = [Registers_new EXCEPT !.A = 58, !.B = v, !.F = f, !.H = 192]
         /\ memory = set(Memory_new, 49152, v)
    /\ flags = CpuFlags_new
    /\ last = New
    /\ before = Snapshot
    /\ ops = 0
    /\ overflow_checks \in BOOLEAN

IncDec ==
    {InstrR("ALU8Bit", n, r) : n \in {"INC", "DEC"}, r \in SingleRegister}
    \cup {Instr("ALU8Bit", "INC_HL"), Instr("ALU8Bit", "DEC_HL")}

OnF ==
    {InstrR("ALU8Bit", n, "F") :
        n \in {"ADD", "ADC", "SUB", "SBC", "AND", "OR", "XOR", "CP", "INC", "DEC"}}

AluNext == \E i \in IncDec \cup OnF : ExecuteOnce(i)

SpecAlu == AluInit /\ [][AluNext]_vars

(* SpecAdd: ADD of a register, of an immediate byte and of (HL), for every  *)
(* A and every operand, from all flags clear and from all flags set.        *)

AddFlags == {0, 240}

AddInit ==
    /\ \E a \in 0..255, operand \in 0..255, f \in AddFlags :
         /\ registers = [Registers_new EXCEPT !.A = a, !.B = operand, !.F = f, !.H = 192]
         /\ memory = set(Memory_new, 49152, operand)
    /\ flags = CpuFlags_new
    /\ last = New
    /\ before = Snapshot
    /\ ops = 0
    /\ overflow_checks \in BOOLEAN

AddNext ==
    \/ ExecuteOnce(InstrR("ALU8Bit", "ADD", "B"))
    \/ ExecuteOnce(InstrN("ALU8Bit", "ADD_N", registers.B))
    \/ ExecuteOnce(Instr("ALU8Bit", "ADD_HL"))

SpecAdd == AddInit /\ [][AddNext]_vars

(* SpecSub: the subtractions, for every A and every operand, from all flags  *)
(* clear and from all flags set: SUB of a register and of (HL), CP of a     *)
(* register, of an immediate byte and of (HL), SBC of a register, DEC of a  *)
(* register.  B and the byte at (HL) hold the operand.                      *)

SubFlags == {0, 240}

SubInit ==
    /\ \E a \in 0..255, operand \in 0..255, f \in SubFlags :
         /\ registers = [Registers_new EXCEPT !.A = a, !.B = operand, !.F = f, !.H = 192]
         /\ memory = set(Memory_new, 49152, operand)
    /\ flags = CpuFlags_new
    /\ last = New
    /\ before = Snapshot
    /\ ops = 0
    /\ overflow_checks \in BOOLEAN

SubNext ==
    \/ ExecuteOnce(InstrR("ALU8Bit", "SUB", "B"))
    \/ ExecuteOnce(Instr("ALU8Bit", "SUB_HL"))
    \/ ExecuteOnce(InstrR("ALU8Bit", "CP", "B"))
    \/ ExecuteOnce(InstrN("ALU8Bit", "CP_N", registers.B))
    \/ ExecuteOnce(Instr("ALU8Bit", "CP_HL"))
    \/ ExecuteOnce(InstrR("ALU8Bit", "SBC", "B"))
    \/ ExecuteOnce(InstrR("ALU8Bit", "DEC", "B"))

SpecSub == SubInit /\ [][SubNext]_vars

(* SpecCarry: ADC and SBC of a register and of an immediate byte, for every *)
(* A, the operands of CarryOperands, and Carry clear and set on entry.      *)

CarryOperands == {0, 1, 15, 58, 79, 128, 254, 255}
CarryFlags == {0, 16, 240}

CarryInit ==
    /\ \E a \in 0..255, operand \in CarryOperands, f \in CarryFlags :
         /\ registers = [Registers_new EXCEPT !.A = a, !.B = operand, !.F = f, !.H = 192]
         /\ memory = set(Memory_new, 49152, operand)
    /\ flags = CpuFlags_new
    /\ last = New
    /\ before = Snapshot
    /\ ops = 0
    /\ overflow_checks \in BOOLEAN

CarryNext ==
    \/ ExecuteOnce(InstrR("ALU8Bit", "ADC", "B"))
    \/ ExecuteOnce(InstrN("ALU8Bit", "ADC_N", registers.B))
    \/ ExecuteOnce(InstrR("ALU8Bit", "SBC", "B"))
    \/ ExecuteOnce(InstrN("ALU8Bit", "SBC_N", registers.B))

SpecCarry == CarryInit /\ [][CarryNext]_vars

(* SpecBit: every BIT, SET and RES sub-opcode, executed once.  The seven     *)
(* registers and the byte at (HL) hold eight different values derived from  *)
(* v, for every v; F starts with the flag states of BitFlags.               *)

BitFlags == {0, 80, 240}

BitInit ==
    /\ \E v \in 0..255, f \in BitFlags :
         \E regs \in {[Registers_new EXCEPT
                          !.A = v, !.B = (v + 17) % 256, !.C = (v + 34) % 256,
                          !.D = (v + 51) % 256, !.E = (v + 68) % 256,
                          !.H = (v + 85) % 256, !.L = (v + 102) % 256,
                          !.F = f]} :
            /\ registers = regs
            /\ memory = set(Memory_new, get_double(regs, "HL"), (v + 119) % 256)
    /\ flags = CpuFlags_new
    /\ last = New
    /\ before = Snapshot
    /\ ops = 0
    /\ overflow_checks \in BOOLEAN

BitNext ==
    \E b \in 64..255 : \E d \in {bit_decode(b)} : ExecuteOnce(d.instruction)

SpecBit == BitInit /\ [][BitNext]_vars

(* SpecRotate: RLCA, RLA, RRCA, RRA and every rotate, shift and SWAP         *)
(* sub-opcode, executed once; a SWAP may then be executed a second time.    *)
(* The seven registers and the byte at (HL) hold eight different values     *)
(* derived from v, for every v; F starts with the flag states of            *)
(* RotateFlags.                                                             *)

RotateFlags == {0, 16, 224, 240}

RotateInit ==
    /\ \E v \in 0..255, f \in RotateFlags :
         \E regs \in {[Registers_new EXCEPT
                          !.A = v, !.B = (v + 17) % 256, !.C = (v + 34) % 256,
                          !.D = (v + 51) % 256, !.E = (v + 68) % 256,
                          !.H = (v + 85) % 256, !.L = (v + 102) % 256,
                          !.F = f]} :
            /\ registers = regs
            /\ memory = set(Memory_new, get_double(regs, "HL"), (v + 119) % 256)
    /\ flags = CpuFlags_new
    /\ last = New
    /\ before = Snapshot
    /\ ops = 0
    /\ overflow_checks \in BOOLEAN

RotateAccumulator ==
    \E n \in {"RLCA", "RLA", "RRCA", "RRA"} : ExecuteOnce(Instr("RotateShift", n))

RotateAddressable ==
    \E b \in 0..63 : \E d \in {rotate_shift_decode(b)} : ExecuteOnce(d.instruction)

SwapAgain ==
    /\ ops = 1
    /\ last.instruction.name = "SWAP"
    /\ Execute(InstrN("RotateShift", "SWAP", last.instruction.operand))

RotateNext ==
    \/ RotateAccumulator
    \/ RotateAddressable
    \/ SwapAgain

SpecRotate == RotateInit /\ [][RotateNext]_vars

(* SpecCall: a CALL and then a RET.  PC takes the high bytes of CallHigh     *)
(* with every low byte, SP the initial 0xFFFE, a mid-memory value and the   *)
(* values at the bottom of memory where SP - 2 leaves it.                   *)

CallHigh == {0, 170, 255}
CallSPs == {65534, 49152, 2, 1, 0}
CallTargets == {43981, 0}

CallInit ==
    /\ \E hi \in CallHigh, lo \in 0..255, sp \in CallSPs :
         registers = [Registers_new EXCEPT !.PC = hi * 256 + lo, !.SP = sp]
    /\ memory = Memory_new
    /\ flags = CpuFlags_new
    /\ last = New
    /\ before = Snapshot
    /\ ops = 0
    /\ overflow_checks \in BOOLEAN

CallFunction ==
    \E nn \in CallTargets : ExecuteOnce(InstrN("ControlFlow", "CALL", nn))

Return ==
    /\ ops = 1
    /\ last.instruction.name = "CALL"
    /\ Execute(Instr("ControlFlow", "RET"))

CallNext == CallFunction \/ Return

SpecCall == CallInit /\ [][CallNext]_vars

-----------------------------------------------------------------------------
(* SpecDaa: an addition or a subtraction of two packed decimal bytes and    *)
(* then the decimal adjustment.  A holds x and B holds y, each a valid      *)
(* two-digit BCD value; C keeps a copy of x.                                *)

\* the bytes whose two nibbles are decimal digits
ValidBcd == {b \in 0..255 : b \div 16 <= 9 /\ b % 16 <= 9}
DaaFlags == {0, 240}

DaaInit ==
    /\ \E x \in ValidBcd, y \in ValidBcd, f \in DaaFlags :
         registers =
             set_single(
                 set_single(
                     set_single(set_single(Registers_new, "F", f), "A", x),
                     "B", y),
                 "C", x)
    /\ memory = Memory_new
    /\ flags = CpuFlags_new
    /\ last = New
    /\ before = Snapshot
    /\ ops = 0
    /\ overflow_checks \in BOOLEAN

\* ALU8Bit::ADD(B) and ALU8Bit::SUB(B)
DaaAdd ==
    /\ ops = 0
    /\ Execute(InstrR("ALU8Bit", "ADD", "B"))

DaaSub ==
    /\ ops = 0
    /\ Execute(InstrR("ALU8Bit", "SUB", "B"))

\* Misc::DAA() on the result
DaaAdjust ==
    /\ ops = 1
    /\ Execute(Instr("Misc", "DAA"))

DaaNext == DaaAdd \/ DaaSub \/ DaaAdjust

SpecDaa == DaaInit /\ [][DaaNext]_vars

-----------------------------------------------------------------------------
(* SpecWide: one 16-bit addition.  HL and the operand registers start with  *)
(* values around the carries out of bit 11 and bit 15; BC and SP hold the   *)
(* same value and DE the value 0x1111 further on.                           *)

WideValues ==
    {0, 1, 255, 256, 2047, 2048, 4095, 4096, 4097, 32767, 32768, 61440,
     61441, 65280, 65534, 65535}
WideFlags == {0, 128, 240}
WideRegisters == {"BC", "DE", "HL", "SP"}

WideInit ==
    /\ \E hl \in WideValues, rr \in WideValues, f \in WideFlags :
         registers =
             set_double(
                 set_double(
                     set_double(
                         set_single([Registers_new EXCEPT !.SP = rr], "F", f),
                         "BC", rr),
                     "DE", wrapping_add16(rr, 4369)),
                 "HL", hl)
    /\ memory = Memory_new
    /\ flags = CpuFlags_new
    /\ last = New
    /\ before = Snapshot
    /\ ops = 0
    /\ overflow_checks \in BOOLEAN

\* ALU16Bit::ADD_HL(r)
AddHL == \E r \in WideRegisters : ExecuteOnce(InstrR("ALU16Bit", "ADD_HL", r))

\* ALU16Bit::ADD_SP(operand)
AddSP == \E e \in 0..255 : ExecuteOnce(InstrN("ALU16Bit", "ADD_SP", e))

WideNext == AddHL \/ AddSP

SpecWide == WideInit /\ [][WideNext]_vars

-----------------------------------------------------------------------------
(* SpecDecimal: one decimal adjustment, from every value of A and every     *)
(* state of the flags Z, N, H, C.                                           *)

DecimalInit ==
    /\ \E a \in 0..255, f \in FlagStates :
         registers = set_single(set_single(Registers_new, "F", f), "A", a)
    /\ memory = Memory_new
    /\ flags = CpuFlags_new
    /\ last = New
    /\ before = Snapshot
    /\ ops = 0
    /\ overflow_checks \in BOOLEAN

\* Misc::DAA()
DecimalNext ==
    /\ ops = 0
    /\ Execute(Instr("Misc", "DAA"))

SpecDecimal == DecimalInit /\ [][DecimalNext]_vars

-----------------------------------------------------------------------------
(* SpecInterrupt: a CPU from its constructor stepping through a program of  *)
(* three one-byte instructions at address 0: EI, DI, NOP, RETI and an       *)
(* opcode decode does not know, in every order.                             *)

InterruptOpcodes == {251, 243, 0, 217, 211}

InterruptInit ==
    /\ registers = Registers_new
    /\ \E first \in InterruptOpcodes, second \in InterruptOpcodes,
          third \in InterruptOpcodes :
         memory = Program(0, <<first, second, third>>)
    /\ flags = CpuFlags_new
    /\ last = New
    /\ before = Snapshot
    /\ ops = 0
    /\ overflow_checks \in BOOLEAN

InterruptNext == Tick

SpecInterrupt == InterruptInit /\ [][InterruptNext]_vars

-----------------------------------------------------------------------------
(* SpecFlow: every control-flow opcode, decoded from memory and then either *)
(* executed once or stepped once, from a state with a jump target behind    *)
(* the opcode, a return address on the stack, HL set, and any flags.        *)

FlowPCs == {336, 32768}
FlowSPs == {65534, 49152, 65535, 1, 0}
\* the 16-bit operand behind the opcode, the return address on the stack and
\* the value of HL
FlowTargets == {4660}
FlowReturns == {22136}
FlowHLs == {39612}

\* the opcodes decode maps to a control-flow instruction
FlowOpcodes ==
    {o \in 0..255 :
        \E d \in {decode(o, 0, Memory_new)} :
            d.result = "Ok" /\ d.instruction.group = "ControlFlow"}

\* memory with the bytes of a 16-bit word at location, as far as memory goes
Stored(mem, location, low, high) ==
    LET first == IF InBounds(location) THEN set(mem, location, low) ELSE mem
    IN IF InBounds(location + 1) THEN set(first, location + 1, high) ELSE first

FlowInit ==
    /\ \E pc \in FlowPCs, sp \in FlowSPs, opcode \in FlowOpcodes, f \in FlagStates,
          target \in FlowTargets, return \in FlowReturns, hl \in FlowHLs :
         /\ registers =
              set_double(
                  set_single([Registers_new EXCEPT !.PC = pc, !.SP = sp], "F", f),
                  "HL", hl)
         /\ memory =
              Stored(Program(pc, <<opcode, target % 256, target \div 256>>),
                     sp, return % 256, return \div 256)
    /\ flags \in [IME : BOOLEAN, IME_scheduled : BOOLEAN]
    /\ last = New
    /\ before = Snapshot
    /\ ops = 0
    /\ overflow_checks \in BOOLEAN

\* decode(opcode, pc, &memory) and then instruction.execute(..)
FlowExecute ==
    \E d \in {decode(get(memory, registers.PC), registers.PC, memory)} :
        d.result = "Ok" /\ ExecuteOnce(d.instruction)

\* cpu.tick(&mut memory)
FlowStep == ops = 0 /\ Tick

FlowNext == FlowExecute \/ FlowStep

SpecFlow == FlowInit /\ [][FlowNext]_vars

-----------------------------------------------------------------------------
(* SpecStack: a PUSH and then a POP.  BC, DE, HL and AF start with          *)
(* different values drawn from StackHigh and every low byte, SP with the    *)
(* initial 0xFFFE, a mid-memory value, and the values at the bottom of      *)
(* memory where SP - 2 leaves it.                                           *)

StackHigh == {0, 18, 255}
StackSPs == {65534, 49152, 2, 1, 0}
StackRegisters == {"BC", "DE", "HL", "AF"}

StackInit ==
    /\ \E hi \in StackHigh, lo \in 0..255, sp \in StackSPs :
         LET v == hi * 256 + lo
             regs0 == [Registers_new EXCEPT !.SP = sp]
             regs1 == set_double(regs0, "BC", v)
             regs2 == set_double(regs1, "DE", wrapping_add16(v, 257))
             regs3 == set_double(regs2, "HL", wrapping_add16(v, 514))
         IN registers = set_double(regs3, "AF", wrapping_add16(v, 771))
    /\ memory = Memory_new
    /\ flags = CpuFlags_new
    /\ last = New
    /\ before = Snapshot
    /\ ops = 0
    /\ overflow_checks \in BOOLEAN

Push == \E r \in StackRegisters : ExecuteOnce(InstrR("Load16Bit", "PUSH", r))

Pop ==
    /\ last.instruction.name = "PUSH"
    /\ \E r \in StackRegisters : Execute(InstrR("Load16Bit", "POP", r))

StackNext == Push \/ Pop

SpecStack == StackInit /\ [][StackNext]_vars

-----------------------------------------------------------------------------
(* Properties.                                                              *)

\* the last operation was a step that returned Ok and executed i
Stepped(i) == last.op = "tick" /\ last.result = "Ok" /\ last.instruction = i

\* the last operation was an execute of i that returned Ok
Executed(i) == last.op = "execute" /\ last.result = "Ok" /\ last.instruction = i

\* the operation left registers, memory and interrupt flags as they were
Untouched ==
    /\ registers = before.registers
    /\ memory = before.memory
    /\ flags = before.flags

\* C1: whatever is written with set_single and set_double, and whatever
\* instructions are executed, from a new register file, bits 3..0 of F are 0.
C1_LowNibbleOfFIsZero == registers.F % 16 = 0

\* 0xFF has been written to F with set_single, and F holds 0xF0
C1_Witness ==
    /\ last.op = "set_single"
    /\ last.r = "F"
    /\ last.value = 255
    /\ registers.F = 240

\* C2, with the start narrowed to "IME false and no enabling scheduled": a
\* step that executes EI from there leaves IME false and IME_scheduled true,
\* and a NOP step right after it leaves IME true and IME_scheduled false.
C2_EIThenNOP ==
    [][/\ (Stepped(Instr("Misc", "EI")))' /\ ~flags.IME /\ ~flags.IME_scheduled
          => ~flags'.IME /\ flags'.IME_scheduled
       /\ /\ Stepped(Instr("Misc", "EI"))
          /\ ~before.flags.IME /\ ~before.flags.IME_scheduled
          /\ (Stepped(Instr("Misc", "NOP")))'
          => flags'.IME /\ ~flags'.IME_scheduled]_vars

\* C2 as stated, starting from any state with IME false: a step that
\* executes EI leaves IME false and IME_scheduled true, and a NOP step right
\* after it leaves IME true and IME_scheduled false.
C2_EIThenNOP_FromIMEFalse ==
    [][/\ (Stepped(Instr("Misc", "EI")))' /\ ~flags.IME
          => ~flags'.IME /\ flags'.IME_scheduled
       /\ /\ Stepped(Instr("Misc", "EI"))
          /\ ~before.flags.IME
          /\ (Stepped(Instr("Misc", "NOP")))'
          => flags'.IME /\ ~flags'.IME_scheduled]_vars

\* the second of two steps executed NOP, started with IME false and the
\* enabling scheduled, and left IME true
C2_Witness ==
    /\ ops = 2
    /\ Stepped(Instr("Misc", "NOP"))
    /\ ~before.flags.IME
    /\ before.flags.IME_scheduled
    /\ flags.IME
    /\ ~flags.IME_scheduled

\* C3: after every step that returns Ok, IME_scheduled is true exactly if the
\* step executed EI; a step that started with IME_scheduled true leaves IME
\* true (unless it executed DI, which clears IME afterwards); and no step
\* other than one executing EI turns IME_scheduled on.
C3_ScheduledIffEI ==
    /\ last.op = "tick" /\ last.result = "Ok"
       => /\ flags.IME_scheduled <=> last.instruction = Instr("Misc", "EI")
          /\ before.flags.IME_scheduled /\ last.instruction # Instr("Misc", "DI")
             => flags.IME
    /\ last.op = "tick" /\ flags.IME_scheduled /\ ~before.flags.IME_scheduled
       => Stepped(Instr("Misc", "EI"))

\* a NOP step started with the enabling scheduled and IME false, and left
\* IME true and nothing scheduled
C3_Witness ==
    /\ Stepped(Instr("Misc", "NOP"))
    /\ before.flags.IME_scheduled
    /\ ~before.flags.IME
    /\ flags.IME
    /\ ~flags.IME_scheduled
    /\ ops = 1

\* C4: decode is total: whatever opcode is at PC, whatever bytes follow it
\* and wherever in 0..0xFFFF PC is, decode returns an Instruction or
\* UnknownInstruction; it never aborts on an operand fetch past 0xFFFF.
C4_DecodeIsTotal ==
    decode(get(memory, registers.PC), registers.PC, memory).result
        \in {"Ok", "UnknownInstruction"}

\* the 8-bit operand of JR and JRC as a signed two's-complement offset
signed(e) == IF e > 127 THEN e - 256 ELSE e

\* the step executed JR, or JRC with its condition fulfilled
Jumped ==
    /\ last.op = "tick"
    /\ last.result = "Ok"
    /\ last.instruction.group = "ControlFlow"
    /\ \/ last.instruction.name = "JR"
       \/ /\ last.instruction.name = "JRC"
          /\ is_fulfilled(last.instruction.condition, before.registers)

\* C5: a step that executes JR, or a taken JRC, with operand e at location
\* PC0 ends with PC = (PC0 + 2 + signed(e)) mod 2^16; at 0x0480, JR 0xFA ends
\* with PC = 0x047C.
C5_SignedOffset ==
    Jumped =>
        registers.PC =
            (last.location + 2 + signed(last.instruction.operand) + 65536) % 65536

\* the step decode(..) would reject: the byte at PC matches no rule
NoRuleMatches(snapshot) ==
    decode(get(snapshot.memory, snapshot.registers.PC), snapshot.registers.PC,
           snapshot.memory).result = "UnknownInstruction"

\* C6: a step on a byte that matches no decode rule fails with
\* UnknownInstruction(opcode) and leaves PC, the other registers, memory, IME
\* and IME_scheduled as they were.
C6_UnknownLeavesStateAlone ==
    last.op = "tick" /\ NoRuleMatches(before)
    => /\ last.result = "UnknownInstruction"
       /\ last.value = get(before.memory, before.registers.PC)
       /\ Untouched

\* a step on 0xD3, with flags set and an enabling scheduled, has failed
C6_Witness ==
    /\ last.op = "tick"
    /\ last.result = "UnknownInstruction"
    /\ last.value = 211
    /\ before.flags.IME_scheduled
    /\ before.registers.F = 240
    /\ before.registers.PC = 1152

\* C7: ADD, ADC, SUB, SBC, AND, OR, XOR, CP, INC and DEC on register F return
\* UnsupportedSingleRegister and leave every register and memory unchanged.
C7_FIsUnsupported ==
    last.op = "execute" /\ last.instruction \in OnF
    => /\ last.result = "UnsupportedSingleRegister"
       /\ Untouched

\* INC F has failed with A = 0x3A and all four flags set
C7_Witness ==
    /\ last.op = "execute"
    /\ last.instruction = InstrR("ALU8Bit", "INC", "F")
    /\ last.result = "UnsupportedSingleRegister"
    /\ registers.A = 58
    /\ registers.F = 240

\* C8: when PUSH r and the POP r right after it both return, r holds the
\* value it held before the PUSH and SP is where it was before the PUSH, for
\* r in BC, DE, HL, AF.
C8_PushPopRoundTrip ==
    [][\A r \in StackRegisters :
         /\ Executed(InstrR("Load16Bit", "PUSH", r))
         /\ (Executed(InstrR("Load16Bit", "POP", r)))'
         => /\ get_double(registers', r) = get_double(before.registers, r)
            /\ registers'.SP = before.registers.SP]_vars

\* AF, with A and F not zero, has been pushed and popped, and the stack
\* still holds its value
C8_Witness ==
    /\ ops = 2
    /\ Executed(InstrR("Load16Bit", "POP", "AF"))
    /\ registers.A # 0
    /\ registers.F # 0
    /\ get_u16(memory, before.registers.SP) = get_double(registers, "AF")
    /\ registers.SP = wrapping_add16(before.registers.SP, 2)

\* C9: INC and DEC of a register or of (HL) leave Carry as it was, whatever
\* the operand and the flags, also when the result wraps.
C9_IncDecKeepCarry ==
    last.op = "execute" /\ last.result = "Ok" /\ last.instruction \in IncDec
    => (is_carry(registers) <=> is_carry(before.registers))

\* INC B wrapped 0xFF to 0x00 with Carry clear, and Carry is still clear
C9_Witness ==
    /\ Executed(InstrR("ALU8Bit", "INC", "B"))
    /\ before.registers.B = 255
    /\ registers.B = 0
    /\ ~is_carry(before.registers)
    /\ ~is_carry(registers)

\* C10: ADD leaves A = (A + operand) mod 256, Zero iff that is 0, Negative
\* clear, HalfCarry iff the low nibbles carry out of bit 3, Carry iff
\* A + operand > 0xFF, and nothing else in F; A = 0x3A, operand 0xC6 gives
\* A = 0x00 and flags 0b1011_0000.
C10_AddResultAndFlags ==
    last.op = "execute" /\ last.result = "Ok"
    => LET a == before.registers.A
           operand == before.registers.B
           sum == a + operand
       IN /\ registers.A = sum % 256
          /\ registers.F =
                (IF sum % 256 = 0 THEN 128 ELSE 0)
                + (IF (a % 16) + (operand % 16) > 15 THEN 32 ELSE 0)
                + (IF sum > 255 THEN 16 ELSE 0)
          /\ (a = 58 /\ operand = 198) => (registers.A = 0 /\ registers.F = 176)

\* ADD B with A = 0x3A and B = 0xC6 has left A = 0x00 and flags 0b1011_0000
C10_Witness ==
    /\ Executed(InstrR("ALU8Bit", "ADD", "B"))
    /\ before.registers.A = 58
    /\ before.registers.B = 198
    /\ registers.A = 0
    /\ registers.F = 176

-----------------------------------------------------------------------------
(* The subtractions.                                                        *)

\* the instruction just executed is SUB, SBC, CP or DEC
Subtracted ==
    /\ last.op = "execute"
    /\ last.result = "Ok"
    /\ last.instruction.name \in {"SUB", "SUB_HL", "CP", "CP_N", "CP_HL",
                                  "SBC", "DEC"}

\* the minuend of the subtraction just executed: B for DEC, A otherwise
Minuend ==
    IF last.instruction.name = "DEC" THEN before.registers.B
    ELSE before.registers.A

\* the subtrahend: 1 for DEC, the operand plus the incoming Carry for SBC,
\* the operand otherwise
Subtrahend ==
    CASE last.instruction.name = "DEC" -> 1
      [] last.instruction.name = "SBC" ->
            before.registers.B + (IF is_carry(before.registers) THEN 1 ELSE 0)
      [] OTHER -> before.registers.B

\* the difference, modulo 256
Difference == (Minuend - Subtrahend) % 256

\* bit 4 of a byte
Bit4(x) == (x \div 16) % 2

\* C11 as stated: after SUB, SBC, CP or DEC, HalfCarry is set exactly when
\* bit 4 of the minuend differs from bit 4 of the result.
C11_HalfCarryIffBit4Differs ==
    Subtracted => (is_half_carry(registers) <=> Bit4(Minuend) # Bit4(Difference))

\* C11 amended: after SUB, SBC, CP or DEC, HalfCarry is set exactly when the
\* result is not zero and bit 4 of the minuend differs from bit 4 of the
\* result.
C11_HalfCarryIffNonZeroAndBit4Differs ==
    Subtracted
    => (is_half_carry(registers)
        <=> (Difference # 0 /\ Bit4(Minuend) # Bit4(Difference)))

\* SUB B with A = 0x3E and B = 0x0F has left 0x2F with HalfCarry set
C11_Witness ==
    /\ Executed(InstrR("ALU8Bit", "SUB", "B"))
    /\ before.registers.A = 62
    /\ before.registers.B = 15
    /\ registers.A = 47
    /\ is_half_carry(registers)

\* C12: SUB leaves A = (A - operand) mod 256, sets Negative, sets Zero iff
\* that is 0 and Carry iff operand > A, for every A and operand; A = 0x3E
\* with 0x40 at (HL) gives A = 0xFE and flags 0b0101_0000.
C12_SubResultAndFlags ==
    last.op = "execute" /\ last.result = "Ok"
        /\ last.instruction.name \in {"SUB", "SUB_HL"}
    => LET a == before.registers.A
           operand == before.registers.B
       IN /\ registers.A = (a - operand) % 256
          /\ is_negative(registers)
          /\ (is_zero(registers) <=> (a - operand) % 256 = 0)
          /\ (is_carry(registers) <=> operand > a)
          /\ (a = 62 /\ operand = 64) => (registers.A = 254 /\ registers.F = 80)

\* SUB (HL) with A = 0x3E and 0x40 at (HL) has left A = 0xFE and flags
\* 0b0101_0000
C12_Witness ==
    /\ Executed(Instr("ALU8Bit", "SUB_HL"))
    /\ before.registers.A = 62
    /\ get(before.memory, get_double(before.registers, "HL")) = 64
    /\ registers.A = 254
    /\ registers.F = 80

\* C14: CP of a register, of an immediate byte or of (HL) leaves in F the
\* flags SUB leaves on the same operands, and leaves every other register
\* and memory as they were.
C14_CpIsSubWithoutResult ==
    last.op = "execute" /\ last.result = "Ok"
        /\ last.instruction.name \in {"CP", "CP_N", "CP_HL"}
    => /\ registers =
            [before.registers EXCEPT
                !.F = perform_calculation("Sub", before.registers,
                                          before.registers.B, FALSE).F]
       /\ memory = before.memory

\* CP n with A = 0x3C and n = 0x3C has left Zero and Negative set and A as
\* it was
C14_Witness ==
    /\ Executed(InstrN("ALU8Bit", "CP_N", 60))
    /\ before.registers.A = 60
    /\ before.registers.F = 0
    /\ registers.A = 60
    /\ registers.F = 192

\* C13: ADC leaves A = (A + operand + c) mod 256 with Carry iff
\* A + operand + c > 0xFF, and SBC leaves A = (A - operand - c) mod 256 with
\* Carry iff operand + c > A, c being the Carry on entry.
C13_AdcSbcThreeTerms ==
    last.op = "execute" /\ last.result = "Ok"
    => LET a == before.registers.A
           operand == before.registers.B
           c == IF is_carry(before.registers) THEN 1 ELSE 0
       IN /\ last.instruction.name \in {"ADC", "ADC_N"}
             => /\ registers.A = (a + operand + c) % 256
                /\ (is_carry(registers) <=> a + operand + c > 255)
          /\ last.instruction.name \in {"SBC", "SBC_N"}
             => /\ registers.A = (a - operand - c) % 256
                /\ (is_carry(registers) <=> operand + c > a)

-----------------------------------------------------------------------------
(* Bit operations.                                                          *)

\* the register a sub-opcode's low three bits select; 0b110 selects (HL)
TargetRegister == <<"B", "C", "D", "E", "H", "L", "(HL)", "A">>

\* the target of the sub-opcode b, and its value in the state snapshot
TargetOf(b) == TargetRegister[(b % 8) + 1]

TargetValue(snapshot, b) ==
    IF TargetOf(b) = "(HL)"
    THEN get(snapshot.memory, get_double(snapshot.registers, "HL"))
    ELSE snapshot.registers[TargetOf(b)]

\* the bit a sub-opcode's bits 5..3 select, and its value in the byte x
SelectedBit(b) == (b \div 8) % 8

BitValue(x, n) == (x \div (2 ^ n)) % 2

\* C15: BIT b leaves Zero = complement of bit (b >> 3) & 7 of the target the
\* low three bits of b select, Negative clear, HalfCarry set, Carry, the
\* target, the other registers and memory as they were, and takes 2 cycles
\* for a register and 3 for (HL).
C15_BitCopiesComplementToZero ==
    last.op = "execute" /\ last.result = "Ok" /\ last.instruction.name = "BIT"
    => LET b == last.instruction.operand
       IN /\ is_zero(registers)
               <=> BitValue(TargetValue(before, b), SelectedBit(b)) = 0
          /\ ~is_negative(registers)
          /\ is_half_carry(registers)
          /\ is_carry(registers) <=> is_carry(before.registers)
          /\ registers = [before.registers EXCEPT !.F = registers.F]
          /\ memory = before.memory
          /\ last.cycles = IF TargetOf(b) = "(HL)" THEN 3 ELSE 2

\* BIT 7,(HL) on a byte with bit 7 clear has set Zero, kept Carry set and
\* taken 3 cycles
C15_Witness ==
    /\ last.op = "execute" /\ last.result = "Ok"
    /\ last.instruction.name = "BIT"
    /\ last.instruction.operand = 126
    /\ TargetValue(before, 126) < 128
    /\ before.registers.F = 80
    /\ registers.F = 176
    /\ last.cycles = 3

\* the byte x with bit n set, and with bit n clear
WithBit(x, n) == IF BitValue(x, n) = 1 THEN x ELSE x + 2 ^ n

WithoutBit(x, n) == IF BitValue(x, n) = 1 THEN x - 2 ^ n ELSE x

\* C16: SET b and RES b leave the target with the selected bit set,
\* respectively clear, and its other bits as they were; the flags, the other
\* registers and the other memory cells are as they were; a register target
\* takes 2 cycles and (HL) takes 4.
C16_SetResChangeOneBit ==
    last.op = "execute" /\ last.result = "Ok"
        /\ last.instruction.name \in {"SET", "RES"}
    => LET b == last.instruction.operand
           old == TargetValue(before, b)
           new == IF last.instruction.name = "SET"
                  THEN WithBit(old, SelectedBit(b))
                  ELSE WithoutBit(old, SelectedBit(b))
       IN IF TargetOf(b) = "(HL)"
          THEN /\ registers = before.registers
               /\ memory = set(before.memory,
                               get_double(before.registers, "HL"), new)
               /\ last.cycles = 4
          ELSE /\ registers = [before.registers EXCEPT ![TargetOf(b)] = new]
               /\ memory = before.memory
               /\ last.cycles = 2

\* RES 3,(HL) has cleared bit 3 of a byte that had it set, with all four
\* flags set before and after, in 4 cycles
C16_Witness ==
    /\ last.op = "execute" /\ last.result = "Ok"
    /\ last.instruction.name = "RES"
    /\ last.instruction.operand = 158
    /\ BitValue(TargetValue(before, 158), 3) = 1
    /\ TargetValue(Snapshot, 158) = TargetValue(before, 158) - 8
    /\ before.registers.F = 240
    /\ registers.F = 240
    /\ last.cycles = 4

-----------------------------------------------------------------------------
(* Rotates and shifts.                                                      *)

LeftOps == {"RLCA", "RLA", "RLC", "RL", "SLA"}
RightOps == {"RRCA", "RRA", "RRC", "RR", "SRA", "SRL"}
AccumulatorOps == {"RLCA", "RLA", "RRCA", "RRA"}

\* a rotate or shift other than SWAP has just been executed
Rotated ==
    /\ last.op = "execute"
    /\ last.result = "Ok"
    /\ last.instruction.name \in LeftOps \cup RightOps

\* the value the instruction just executed worked on, in the state snapshot
RotateValue(snapshot) ==
    IF last.instruction.name \in AccumulatorOps THEN snapshot.registers.A
    ELSE TargetValue(snapshot, last.instruction.operand)

\* C17: after every rotate and shift other than SWAP, Carry is the bit that
\* left the byte: bit 7 of the input for the left operations, bit 0 for the
\* right operations, whatever the flags were.
C17_CarryIsTheBitShiftedOut ==
    Rotated
    => (is_carry(registers)
        <=> BitValue(RotateValue(before),
                     IF last.instruction.name \in LeftOps THEN 7 ELSE 0) = 1)

\* SRA (HL) on an odd byte, with Carry clear before, has set Carry
C17_Witness ==
    /\ Rotated
    /\ last.instruction.name = "SRA"
    /\ TargetOf(last.instruction.operand) = "(HL)"
    /\ RotateValue(before) % 2 = 1
    /\ ~is_carry(before.registers)
    /\ is_carry(registers)

\* C18: after RL and RLA bit 0 of the result is the Carry flag as it was
\* before the instruction, and after RR and RRA bit 7 of the result is.
C18_VacatedBitIsPriorCarry ==
    Rotated /\ last.instruction.name \in {"RL", "RLA", "RR", "RRA"}
    => (BitValue(RotateValue(Snapshot),
                 IF last.instruction.name \in LeftOps THEN 0 ELSE 7) = 1
        <=> is_carry(before.registers))

\* the registers, memory and interrupt flags a step leaves
SnapshotAfter == [registers |-> registers', memory |-> memory', flags |-> flags']

\* a step that executes SWAP
SwapStep ==
    /\ ops' = ops + 1
    /\ last'.op = "execute"
    /\ last'.result = "Ok"
    /\ last'.instruction.name = "SWAP"

\* C19: SWAP leaves the target with ((v & 0x0F) << 4) | (v >> 4) for its
\* value v, Zero set iff v = 0, Negative, HalfCarry and Carry clear; a second
\* SWAP of the same target leaves it with the value it had before the first.
C19_SwapExchangesNibbles ==
    [][SwapStep
       => LET b == last'.instruction.operand
              v == TargetValue(Snapshot, b)
          IN /\ TargetValue(SnapshotAfter, b) = (v % 16) * 16 + (v \div 16)
             /\ registers'.F = IF v = 0 THEN 128 ELSE 0
             /\ (ops = 1 /\ last.instruction = last'.instruction)
                => TargetValue(SnapshotAfter, b) = TargetValue(before, b)]_vars

\* SWAP B has been executed twice from B = 0x31: 0x13 after the first, 0x31
\* again after the second
C19_Witness ==
    /\ ops = 2
    /\ Executed(InstrN("RotateShift", "SWAP", 48))
    /\ before.registers.B = 19
    /\ registers.B = 49
    /\ registers.F = 0

-----------------------------------------------------------------------------
(* CALL and RET.                                                            *)

\* a step in which CALL returns
CallStep ==
    /\ ops' = ops + 1
    /\ last'.op = "execute"
    /\ last'.result = "Ok"
    /\ last'.instruction.name = "CALL"

\* a step in which RET returns, right after a CALL that returned
ReturnStep ==
    /\ last.op = "execute" /\ last.result = "Ok" /\ last.instruction.name = "CALL"
    /\ ops' = ops + 1
    /\ last'.op = "execute"
    /\ last'.result = "Ok"
    /\ last'.instruction.name = "RET"

\* C20: when CALL nn returns, the bytes at SP-2 and SP-1 (SP as before the
\* CALL, addresses modulo 0x10000) are the low and the high byte of the PC
\* before the CALL, SP is 2 less and PC is nn; when the RET right after it
\* returns, PC and SP are what they were before the CALL.
C20_CallThenRet ==
    [][/\ CallStep
          => /\ get(memory', (registers.SP - 2) % 65536) = registers.PC % 256
             /\ get(memory', (registers.SP - 1) % 65536) = registers.PC \div 256
             /\ registers'.SP = (registers.SP - 2) % 65536
             /\ registers'.PC = last'.instruction.operand
       /\ ReturnStep
          => /\ registers'.PC = before.registers.PC
             /\ registers'.SP = before.registers.SP]_vars

\* CALL 0xABCD from PC = 0xAAAA, SP = 0xFFFE, then RET: PC is 0xAAAA and SP
\* 0xFFFE again, and the stack bytes still hold 0xAA, 0xAA
C20_Witness ==
    /\ ops = 2
    /\ Executed(Instr("ControlFlow", "RET"))
    /\ before.registers.PC = 43981
    /\ before.registers.SP = 65532
    /\ get_u16(memory, 65532) = 43690
    /\ registers.PC = 43690
    /\ registers.SP = 65534

-----------------------------------------------------------------------------
(* Control flow.                                                            *)

\* the control-flow instruction of this name has just returned Ok, executed
\* directly or in a step
Flowed(name) ==
    /\ last.result = "Ok"
    /\ last.instruction.group = "ControlFlow"
    /\ last.instruction.name = name

\* the 16-bit word the snapshot's memory holds at its stack pointer
TopOfStack(snapshot) ==
    get(snapshot.memory, snapshot.registers.SP)
        + 256 * get(snapshot.memory, snapshot.registers.SP + 1)

\* what RET leaves from the snapshot
AfterRet(snapshot) ==
    execute(Instr("ControlFlow", "RET"),
            snapshot.registers, snapshot.memory, snapshot.flags)

\* C21: a RETI that returns leaves PC = the word on top of the stack and
\* SP = SP + 2 (mod 2^16), memory and the other registers as they were,
\* exactly the PC and SP a RET from the same state leaves, and IME true at
\* once: executed directly it leaves IME_scheduled as it was, and at the end
\* of the step that ran it IME is true and nothing is scheduled.
C21_RetiReturnsAndEnables ==
    Flowed("RETI") =>
        /\ registers.PC = TopOfStack(before)
        /\ registers.SP = (before.registers.SP + 2) % 65536
        /\ registers =
             [before.registers EXCEPT !.PC = registers.PC, !.SP = registers.SP]
        /\ memory = before.memory
        /\ \E ret \in {AfterRet(before)} :
              /\ ret.result = "Ok"
              /\ registers.PC = ret.registers.PC
              /\ registers.SP = ret.registers.SP
        /\ flags.IME
        /\ last.op = "execute" =>
              flags.IME_scheduled = before.flags.IME_scheduled
        /\ last.op = "tick" => ~flags.IME_scheduled

\* a step ran RETI with interrupts disabled and none scheduled, and returned
\* to the address on the stack
C21_Witness ==
    /\ Flowed("RETI")
    /\ last.op = "tick"
    /\ ~before.flags.IME
    /\ ~before.flags.IME_scheduled
    /\ before.registers.SP = 49152
    /\ registers.PC \in FlowReturns
    /\ registers.SP = 49154
    /\ flags.IME

\* opcode & 0b00111000, from the bits of the opcode
ResetAddress(opcode) == ((opcode \div 8) % 8) * 8

\* the address of the instruction after the one last run: the PC the caller
\* left when it executed the instruction directly, the advanced PC in a step
Following ==
    IF last.op = "tick"
    THEN (before.registers.PC + length(last.instruction)) % 65536
    ELSE before.registers.PC

\* C22: an RST that returns has pushed the current PC (SP is SP - 2 mod 2^16
\* and the word at the new SP is that PC) and PC is opcode & 0b00111000, one
\* of 0x00, 0x08, .., 0x38.
C22_RstIsCallToFixedAddress ==
    Flowed("RST") =>
        /\ registers.PC = ResetAddress(last.instruction.operand)
        /\ registers.PC \in {8 * n : n \in 0..7}
        /\ registers.SP = (before.registers.SP - 2) % 65536
        /\ TopOfStack([registers |-> registers, memory |-> memory, flags |-> flags])
             = Following

\* the condition read against the flag byte: Carry is bit 4 of F, Zero bit 7
Holds(condition, f) ==
    CASE condition = "Carry" -> (f \div 16) % 2 = 1
      [] condition = "NoCarry" -> (f \div 16) % 2 = 0
      [] condition = "Zero" -> (f \div 128) % 2 = 1
      [] condition = "NotZero" -> (f \div 128) % 2 = 0

ConditionalForms == {"JPC", "JRC", "CALLC", "RETC"}

\* machine cycles of the conditional forms, condition not fulfilled and
\* fulfilled, and of the unconditional forms
CyclesNotFulfilled == [JPC |-> 3, JRC |-> 2, CALLC |-> 3, RETC |-> 2]
CyclesFulfilled == [JPC |-> 4, JRC |-> 3, CALLC |-> 6, RETC |-> 5]
CyclesUnconditional ==
    [JP |-> 4, JP_HL |-> 1, JR |-> 3, CALL |-> 6, RET |-> 4, RETI |-> 4,
     RST |-> 4]

\* a control-flow instruction executed directly has returned its cycles
FlowReturned ==
    /\ last.op = "execute"
    /\ last.result = "Ok"
    /\ last.instruction.group = "ControlFlow"

\* C23: a conditional JP, JR, CALL or RET whose condition is not fulfilled
\* leaves PC, SP and memory unchanged and returns 3, 2, 3, 2 cycles; with the
\* condition fulfilled it returns 4, 3, 6, 5; the unconditional forms return
\* JP 4, JP(HL) 1, JR 3, CALL 6, RET 4, RETI 4, RST 4.
C23_ConditionalFrameAndCycles ==
    FlowReturned =>
        LET name == last.instruction.name
            fulfilled == Holds(last.instruction.condition, before.registers.F)
        IN IF name \in ConditionalForms
           THEN IF fulfilled
                THEN last.cycles = CyclesFulfilled[name]
                ELSE /\ last.cycles = CyclesNotFulfilled[name]
                     /\ registers.PC = before.registers.PC
                     /\ registers.SP = before.registers.SP
                     /\ memory = before.memory
           ELSE last.cycles = CyclesUnconditional[name]

\* CALL on Zero was executed with Zero clear: nothing pushed, 3 cycles
C23_Witness ==
    /\ FlowReturned
    /\ last.instruction.name = "CALLC"
    /\ last.instruction.condition = "Zero"
    /\ before.registers.F = 16
    /\ before.registers.SP = 49152
    /\ registers.SP = 49152
    /\ registers.PC = before.registers.PC
    /\ last.cycles = 3

\* the condition the 2-bit field names
ConditionOfField == <<"Carry", "NoCarry", "Zero", "NotZero">>

\* the opcode at PC in the snapshot
OpcodeAt(snapshot) == get(snapshot.memory, snapshot.registers.PC)

\* C30: the condition of a decoded conditional JP, JR, CALL or RET is the one
\* bits 4 and 3 of its opcode name, 00 Carry, 01 NoCarry, 10 Zero, 11 NotZero;
\* is_fulfilled of it holds exactly when Carry is set, Carry is clear, Zero is
\* set, Zero is clear, and the instruction takes its branch (returns the
\* cycles of the fulfilled form) exactly then.
C30_ConditionFieldAndFulfilment ==
    (FlowReturned /\ last.instruction.name \in ConditionalForms) =>
        LET field == (OpcodeAt(before) \div 8) % 4
            condition == last.instruction.condition
            f == before.registers.F
        IN /\ condition = ConditionOfField[field + 1]
           /\ is_fulfilled("Carry", before.registers) <=> (f \div 16) % 2 = 1
           /\ is_fulfilled("NoCarry", before.registers) <=> (f \div 16) % 2 = 0
           /\ is_fulfilled("Zero", before.registers) <=> (f \div 128) % 2 = 1
           /\ is_fulfilled("NotZero", before.registers) <=> (f \div 128) % 2 = 0
           /\ (last.cycles = CyclesFulfilled[last.instruction.name])
                <=> Holds(ConditionOfField[field + 1], f)

\* opcode 0xDA, field 11, decoded to JP on NotZero and taken with Zero clear
C30_Witness ==
    /\ FlowReturned
    /\ OpcodeAt(before) = 218
    /\ last.instruction.name = "JPC"
    /\ last.instruction.condition = "NotZero"
    /\ before.registers.F = 16
    /\ registers.PC \in FlowTargets
    /\ last.cycles = 4

-----------------------------------------------------------------------------
(* The 0xCB prefix.                                                         *)

RotateShiftVariant == <<"RLC", "RRC", "RL", "RR", "SLA", "SRA", "SWAP", "SRL">>
BitVariant == <<"BIT", "RES", "SET">>

\* the last step fetched opcode 0xCB with a byte behind it
PrefixStepped ==
    /\ last.op = "tick"
    /\ OpcodeAt(before) = 203
    /\ InBounds(before.registers.PC + 1)

\* the byte following the opcode of the last step
FollowingByte == get(before.memory, before.registers.PC + 1)

\* C24: for opcode 0xCB and every following byte b the step never ends in
\* UnknownInstruction; the decoded instruction carries b as its operand and
\* is the RotateShift variant bits 5..3 of b select (RLC, RRC, RL, RR, SLA,
\* SRA, SWAP, SRL) iff the top two bits of b are 00, and otherwise the Bit
\* variant BIT, RES, SET for top bits 01, 10, 11.
C24_PrefixDecodesEveryByte ==
    PrefixStepped =>
        LET b == FollowingByte
            top == b \div 64
            i == last.instruction
        IN /\ last.result # "UnknownInstruction"
           /\ i.operand = b
           /\ (i.group = "RotateShift") <=> (top = 0)
           /\ top = 0 => i.name = RotateShiftVariant[((b \div 8) % 8) + 1]
           /\ top # 0 => i.group = "Bit" /\ i.name = BitVariant[top]

\* 0xCB 0xC7 was stepped: SET with operand 0xC7
C24_Witness ==
    /\ PrefixStepped
    /\ FollowingByte = 199
    /\ last.result = "Ok"
    /\ last.instruction = InstrN("Bit", "SET", 199)

-----------------------------------------------------------------------------
(* The step and the program counter.                                        *)

\* the last step succeeded
SteppedOk == last.op = "tick" /\ last.result = "Ok"

\* the instruction of the last step assigns PC itself: the jumps, calls and
\* returns, the conditional ones when their condition holds
WritesPC ==
    /\ last.instruction.group = "ControlFlow"
    /\ last.instruction.name \in ConditionalForms =>
          Holds(last.instruction.condition, before.registers.F)

\* C29: a successful step returns the PC at which it fetched the opcode and
\* the instruction decode gave for it; if the instruction does not write PC
\* itself, PC is then the PC before plus the instruction's length (mod 2^16);
\* and a CALL has pushed the address of the instruction following it: the
\* word at the new SP is the PC before plus 3.
C29_StepAdvancesBeforeExecuting ==
    SteppedOk =>
        LET i == last.instruction
            pc == before.registers.PC
        IN /\ last.location = pc
           /\ \E d \in {decode(OpcodeAt(before), pc, before.memory)} :
                 d.result = "Ok" /\ d.instruction = i
           /\ ~WritesPC => registers.PC = (pc + length(i)) % 65536
           /\ (i.name \in {"CALL", "CALLC"} /\ WritesPC) =>
                 /\ registers.SP = (before.registers.SP - 2) % 65536
                 /\ get(memory, registers.SP) + 256 * get(memory, registers.SP + 1)
                      = (pc + 3) % 65536
                 /\ registers.PC = i.operand

\* CALL was stepped at 0x0480: the step returned 0x0480, and 0x0483 is on the
\* stack
C29_Witness ==
    /\ SteppedOk
    /\ last.instruction.name = "CALL"
    /\ last.location = 1152
    /\ before.registers.PC = 1152
    /\ registers.SP = 65532
    /\ get(memory, 65532) = 131
    /\ get(memory, 65533) = 4
    /\ registers.PC = last.instruction.operand

-----------------------------------------------------------------------------
(* Decimal adjustment.                                                      *)

\* the number a packed decimal byte stands for, and the byte for a number
FromBcd(b) == (b \div 16) * 10 + (b % 16)
ToBcd(n) == (n \div 10) * 16 + (n % 10)

\* DAA returns in this step, on the result the instruction of this name left
AdjustStep(name) ==
    /\ last.result = "Ok"
    /\ last.instruction.name = name
    /\ last'.result = "Ok"
    /\ last'.instruction.name = "DAA"

\* the Carry flag of a flag byte
CarryOf(f) == (f \div 16) % 2 = 1

\* C25: for valid two-digit BCD x (in A, copy in C) and y (in B), ADD B and
\* then DAA leave A = the BCD encoding of (x + y) mod 100, with Carry set
\* iff x + y >= 100.
C25_AddThenDaa ==
    [][AdjustStep("ADD") =>
          LET x == FromBcd(registers.C)
              y == FromBcd(registers.B)
          IN /\ registers'.A = ToBcd((x + y) % 100)
             /\ CarryOf(registers'.F) <=> (x + y >= 100)]_vars

\* 0x29 + 0x13 gave 0x3C, which DAA corrected to 0x42
C25_Witness ==
    /\ ops = 2
    /\ last.result = "Ok"
    /\ last.instruction.name = "DAA"
    /\ registers.C = 41
    /\ registers.B = 19
    /\ before.registers.A = 60
    /\ registers.A = 66
    /\ ~CarryOf(registers.F)

\* C26: for valid two-digit BCD x (in A, copy in C) and y (in B), SUB B and
\* then DAA leave A = the BCD encoding of (x - y) mod 100.
C26_SubThenDaa ==
    [][AdjustStep("SUB") =>
          LET x == FromBcd(registers.C)
              y == FromBcd(registers.B)
          IN registers'.A = ToBcd((x - y) % 100)]_vars

-----------------------------------------------------------------------------
(* 16-bit additions.                                                        *)

\* the flags Z, N, H of a flag byte
ZeroOf(f) == (f \div 128) % 2 = 1
NegativeOf(f) == (f \div 64) % 2 = 1
HalfCarryOf(f) == (f \div 32) % 2 = 1

\* the 16-bit ALU instruction of this name has just returned
Widened(name) ==
    /\ last.op = "execute"
    /\ last.result = "Ok"
    /\ last.instruction.group = "ALU16Bit"
    /\ last.instruction.name = name

\* C27: ADD HL,rr leaves HL = (HL + rr) mod 2^16, Zero unchanged, Negative
\* clear, HalfCarry set iff there is a carry out of bit 11, i.e.
\* (HL & 0xFFF) + (rr & 0xFFF) > 0xFFF, and Carry set iff there is a carry
\* out of bit 15.
C27_AddHLResultAndFlags ==
    Widened("ADD_HL") =>
        LET hl == get_double(before.registers, "HL")
            rr == get_double(before.registers, last.instruction.r)
        IN /\ get_double(registers, "HL") = (hl + rr) % 65536
           /\ ZeroOf(registers.F) <=> ZeroOf(before.registers.F)
           /\ ~NegativeOf(registers.F)
           /\ HalfCarryOf(registers.F) <=> ((hl % 4096) + (rr % 4096) > 4095)
           /\ CarryOf(registers.F) <=> (hl + rr > 65535)

\* C28: ADD SP,e adds its operand as a signed two's-complement offset: SP
\* becomes (SP + signed(e)) mod 2^16, and Zero and Negative are clear.
C28_AddSPSignedOffset ==
    Widened("ADD_SP") =>
        /\ registers.SP =
             (before.registers.SP + signed(last.instruction.operand)) % 65536
        /\ ~ZeroOf(registers.F)
        /\ ~NegativeOf(registers.F)

-----------------------------------------------------------------------------
(* Reachability of the 8-bit loads through decode.                          *)

\* the registers an immediate can be loaded into
LoadTargets == {"A", "B", "C", "D", "E", "H", "L"}

\* some opcode, placed where PC points, decodes to the Load8Bit instruction
\* of this name and register
Decodable(name, r) ==
    \E opcode \in 0..255 :
        \E d \in {decode(opcode, registers.PC, memory)} :
            /\ d.result = "Ok"
            /\ d.instruction.group = "Load8Bit"
            /\ d.instruction.name = name
            /\ d.instruction.r = r

\* C31: decode reaches the immediate loads: for each of A, B, C, D, E, H, L
\* some opcode decodes to LD_N of that register, and some opcode decodes to
\* LD_N_TO_HL.
C31_ImmediateLoadsAreDecodable ==
    InBounds(registers.PC + 2) =>
        /\ \A r \in LoadTargets : Decodable("LD_N", r)
        /\ Decodable("LD_N_TO_HL", "-")

-----------------------------------------------------------------------------
(* Steps at the edges of the address space.                                 *)

\* C33: a step either completes or fails with a CpuError; it never aborts:
\* the updates of PC, SP and HL wrap modulo 2^16.
C33_StepNeverAborts ==
    last.op = "tick" => last.result # "panic"

-----------------------------------------------------------------------------
(* The flags of the decimal adjustment.                                     *)

\* DAA executed directly has just returned
Adjusted ==
    /\ last.op = "execute"
    /\ last.result = "Ok"
    /\ last.instruction = Instr("Misc", "DAA")

\* C34: after DAA, from any A and any flags, HalfCarry is clear, Zero is set
\* iff the corrected A is 0, and Carry is set iff Carry was set before or A
\* was above 0x99 before the correction.
C34_DaaFlags ==
    Adjusted =>
        /\ ~HalfCarryOf(registers.F)
        /\ ZeroOf(registers.F) <=> (registers.A = 0)
        /\ CarryOf(registers.F) <=>
              (CarryOf(before.registers.F) \/ before.registers.A > 153)

\* A = 0x9A with only HalfCarry set: corrected by 0x66 to 0, Zero and Carry
\* set, HalfCarry cleared
C34_Witness ==
    /\ Adjusted
    /\ before.registers.A = 154
    /\ before.registers.F = 32
    /\ registers.A = 0
    /\ registers.F = 144

-----------------------------------------------------------------------------
(* The shifts.                                                              *)

ShiftOps == {"SLA", "SRA", "SRL"}

\* C35: SRA leaves bit 7 of the result equal to bit 7 of the input, SRL
\* leaves bit 7 of the result 0 and SLA leaves bit 0 of the result 0, whatever
\* the input and the flags were; all three set Zero iff the result is 0 and
\* clear Negative and HalfCarry.
C35_ShiftsFillAndFlags ==
    (Rotated /\ last.instruction.name \in ShiftOps) =>
        LET name == last.instruction.name
            x == TargetValue(before, last.instruction.operand)
            y == TargetValue(Snapshot, last.instruction.operand)
        IN /\ name = "SRA" => BitValue(y, 7) = BitValue(x, 7)
           /\ name = "SRL" => BitValue(y, 7) = 0
           /\ name = "SLA" => BitValue(y, 0) = 0
           /\ ZeroOf(registers.F) <=> (y = 0)
           /\ ~NegativeOf(registers.F)
           /\ ~HalfCarryOf(registers.F)

\* SRA D on 0x81 with all flags set: the result 0xC0 keeps bit 7, and only
\* Carry is left set
C35_Witness ==
    /\ Rotated
    /\ last.instruction.name = "SRA"
    /\ TargetOf(last.instruction.operand) = "D"
    /\ before.registers.D = 129
    /\ before.registers.F = 240
    /\ registers.D = 192
    /\ registers.F = 16

-----------------------------------------------------------------------------
(* The two interrupt flags.                                                 *)

BothSet == flags.IME /\ flags.IME_scheduled

\* C36: stepping from IME false and IME_scheduled false, IME and
\* IME_scheduled are never both true.
C36_NeverBothSet == ~BothSet

\* C36 as amended: after a step that completes, IME and IME_scheduled are
\* both true only if the instruction it executed is EI, and then IME was
\* true or scheduled before that step.
C36_BothSetOnlyByEI ==
    (SteppedOk /\ BothSet) =>
        /\ last.instruction = Instr("Misc", "EI")
        /\ before.flags.IME \/ before.flags.IME_scheduled

\* EI stepped directly after EI: the first one's enable has been applied and
\* the second one's is scheduled
C36_Witness ==
    /\ SteppedOk
    /\ ops = 2
    /\ last.instruction = Instr("Misc", "EI")
    /\ ~before.flags.IME
    /\ before.flags.IME_scheduled
    /\ BothSet

\* C37: when the instruction stepped directly after an EI is DI, that step
\* ends with IME false and IME_scheduled false.
C37_EIThenDI ==
    [][(Stepped(Instr("Misc", "EI")) /\ (Stepped(Instr("Misc", "DI")))')
          => (~flags.IME /\ ~flags.IME_scheduled)']_vars

\* DI has been stepped as the second instruction, with the enabling of the
\* EI before it still scheduled when the step began
C37_Witness ==
    /\ Stepped(Instr("Misc", "DI"))
    /\ ops = 2
    /\ before.flags.IME_scheduled
    /\ ~before.flags.IME
    /\ ~flags.IME
    /\ ~flags.IME_scheduled

-----------------------------------------------------------------------------
(* Register operands of decoded instructions.                               *)

\* the opcodes of the 8-bit ALU instructions whose 3-bit register field is
\* 110: ADD .. CP in bits 2..0, INC and DEC in bits 5..3
MemoryOperandOpcodes == {128 + 8 * n + 6 : n \in 0..7} \cup {52, 53}

\* C38: decode never yields an 8-bit ALU instruction whose register operand
\* is F, register code 110 decodes to the memory-at-HL variant, and no step
\* fails with UnsupportedSingleRegister.
C38_NoAluOnF ==
    last.op = "tick" =>
        /\ last.result # "UnsupportedSingleRegister"
        /\ last.instruction.group = "ALU8Bit" => last.instruction.r # "F"
        /\ (last.result # "panic" /\ OpcodeAt(before) \in MemoryOperandOpcodes)
              => /\ last.instruction.group = "ALU8Bit"
                 /\ last.instruction.r = "-"
                 /\ last.instruction.name \in
                      {"ADD_HL", "ADC_HL", "SUB_HL", "SBC_HL", "AND_HL",
                       "XOR_HL", "OR_HL", "CP_HL", "INC_HL", "DEC_HL"}

\* the opcode with SUB in bits 7..3 and register code 110 has been stepped
C38_Witness ==
    /\ SteppedOk
    /\ OpcodeAt(before) \in {150}
    /\ last.instruction = Instr("ALU8Bit", "SUB_HL")

\* C39: no instruction returned by decode, for any opcode and any 0xCB
\* sub-opcode, names register F as a single-register operand, so a step of a
\* decoded load or bit instruction never writes register F directly.
C39_NoDecodedOperandF ==
    SteppedOk =>
        /\ last.instruction.r # "F"
        /\ last.instruction.r2 # "F"
        /\ last.instruction.group = "Load8Bit"
              => registers.F = before.registers.F

-----------------------------------------------------------------------------
(* Instruction length and the operand bytes behind the opcode.              *)

\* C40: the length() of a decoded instruction is 1 plus the number of operand
\* bytes decode read for it: with length 1 it carries no operand from memory
\* (RST carries its own opcode), with length 2 its operand is memory[pc+1]
\* (the sub-opcode after the prefix 0xCB), with length 3 its operand is
\* memory[pc+1] + 256 * memory[pc+2].
C40_LengthCoversOperand ==
    SteppedOk =>
        LET i == last.instruction
            pc == before.registers.PC
            m == before.memory
            n == length(i)
        IN /\ n \in {1, 2, 3}
           /\ n = 1 => i.operand = (IF i.name = "RST" THEN OpcodeAt(before) ELSE 0)
           /\ n = 2 => i.operand = get(m, pc + 1)
           /\ n = 3 => i.operand = get(m, pc + 1) + 256 * get(m, pc + 2)
           /\ OpcodeAt(before) = 203 <=> i.group \in {"Bit", "RotateShift"} /\ n = 2

\* a three-byte instruction has been stepped whose two operand bytes differ
\* and are not zero
C40_Witness ==
    /\ SteppedOk
    /\ length(last.instruction) = 3
    /\ get(before.memory, before.registers.PC + 1) \in StepOperands
    /\ get(before.memory, before.registers.PC + 2) \in {StepSecondOperand}
    /\ last.instruction.operand =
          get(before.memory, before.registers.PC + 1) + 256 * StepSecondOperand

====
